---- MODULE Spec2Model ----
(***************************************************************************)
(* database-inspector: the connection lifecycle of the engine adapters     *)
(* (SqliteDbConnection, PostgresDbConnection, MySqlDbConnection,           *)
(* MSSqlDbConnection over DbBase), their catalog operations and            *)
(* DbBase.extract_schema, as a state machine.                              *)
(*                                                                         *)
(* The native drivers (sqlite3, psycopg, mysql.connector, pyodbc) are the  *)
(* environment: a connect that accepts or rejects the parameters, a        *)
(* handle whose transport is open or closed, a query that answers from the *)
(* catalog or raises the driver's error.                                   *)
(*                                                                         *)
(* Two modules import names that the infrastructure package does not      *)
(* define. mysql_db_connection.py imports the type alias                   *)
(* MySqlConnectionType (types.py has MySQLConnectionTypes): it is used in  *)
(* annotations only and has no counterpart here. mssql_db_connection.py    *)
(* imports and raises DbConnectionError (errors.py has                     *)
(* DatabaseConnectionError): the model keeps the name the raise statements *)
(* use, so what MSSqlDbConnection raises is no class of errors.py.         *)
(***************************************************************************)
EXTENDS Naturals, Sequences, FiniteSets, TLC

VARIABLES
    life,        \* per adapter slot: where the caller is with this instance
    db_type,     \* per adapter: the engine of the instance (its class)
    connection,  \* per adapter: DbBase._connection, a handle or None
    native,      \* per native handle: the driver's connection object
    catalog,     \* the inspected database's catalog, shared by all sessions
    ex,          \* per adapter: the frame of a running extract_schema()
    last,        \* per adapter: the last completed call and its outcome
    type_arg,    \* the argument of a call of DbBase._get_python_type
    type_result, \* what that call returned, "unset" before it has
    null_input,  \* the nullability flags a catalog reports for a table
    null_by,     \* the adapter class whose get_columns translated them
    null_result, \* the is_nullable values it gave, in row order
    lookup       \* DbBase._db_type_to_python_type, the class attribute that
                 \* all instances of all adapter classes share

nvars == <<null_input, null_by, null_result, lookup>>

tvars == <<type_arg, type_result, null_input, null_by, null_result, lookup>>

vars == <<life, db_type, connection, native, catalog, ex, last,
          type_arg, type_result, null_input, null_by, null_result, lookup>>

-----------------------------------------------------------------------------
(* Bounds and universes *)

MaxHandles == 2

Adapters == {"a1", "a2"}
Handles == 1..MaxHandles
None == 0

\* enums.DatabaseType
DatabaseType == {"SQLITE", "POSTGRES", "MYSQL", "MSSQL"}
\* enums.ConnectionStatus
ConnectionStatus == {"CONNECTED", "DISCONNECTED", "UNKNOWN"}

\* connection parameters, as the native driver sees them
ConnParams == {"accepted", "rejected"}

\* the adapters whose sessions reach the server over a network transport
NetworkEngines == {"POSTGRES", "MYSQL", "MSSQL"}

-----------------------------------------------------------------------------
(* errors.py *)

NoError == [kind |-> "none", db_type |-> "none", message |-> <<>>]

\* DatabaseError.__init__: message and db_type are kept on the instance
DatabaseError(kind, message, dbt) ==
    [kind |-> kind, db_type |-> dbt, message |-> message]

DatabaseConnectionError(message, dbt) ==
    DatabaseError("DatabaseConnectionError", message, dbt)

DatabaseTableNotFoundError(message, dbt) ==
    DatabaseError("DatabaseTableNotFoundError", message, dbt)

\* the name mssql_db_connection.py imports from errors.py and raises with
\* (message, DatabaseType.MSSQL); errors.py defines no class of this name
DbConnectionError(message, dbt) ==
    DatabaseError("DbConnectionError", message, dbt)

\* DatabaseError.__str__: f"{self.message} ({self.db_type.name})"
DatabaseError_str(e) == e.message \o << "(" , e.db_type, ")" >>

\* the native driver's own exception (sqlite3.Error, psycopg.Error,
\* mysql.connector.Error, pyodbc.Error): no DatabaseError, no db_type
NativeError(cause) ==
    [kind |-> "NativeError", db_type |-> "none", message |-> <<cause>>]

\* an exception of the with-body's own making
OtherException ==
    [kind |-> "Exception", db_type |-> "none", message |-> <<"body">>]

-----------------------------------------------------------------------------
(* Text: a str is a sequence of one-character strings *)

Lowers == <<"a", "b", "c", "d", "e", "f", "g", "h", "i", "j", "k", "l", "m",
            "n", "o", "p", "q", "r", "s", "t", "u", "v", "w", "x", "y", "z">>
Uppers == <<"A", "B", "C", "D", "E", "F", "G", "H", "I", "J", "K", "L", "M",
            "N", "O", "P", "Q", "R", "S", "T", "U", "V", "W", "X", "Y", "Z">>

\* str.upper(), one character
UpperChar(c) ==
    IF \E i \in DOMAIN Lowers : Lowers[i] = c
    THEN Uppers[CHOOSE i \in DOMAIN Lowers : Lowers[i] = c]
    ELSE c

\* str.lower(), one character
LowerChar(c) ==
    IF \E i \in DOMAIN Uppers : Uppers[i] = c
    THEN Lowers[CHOOSE i \in DOMAIN Uppers : Uppers[i] = c]
    ELSE c

upper(s) == [i \in DOMAIN s |-> UpperChar(s[i])]
lower(s) == [i \in DOMAIN s |-> LowerChar(s[i])]

\* what the regex class \s and str.strip() take for white space
IsSpace(c) == c \in {" ", "\t"}

RECURSIVE lstrip(_)
lstrip(s) ==
    IF s # <<>> /\ IsSpace(Head(s)) THEN lstrip(Tail(s)) ELSE s

RECURSIVE rstrip(_)
rstrip(s) ==
    IF s # <<>> /\ IsSpace(s[Len(s)])
    THEN rstrip(SubSeq(s, 1, Len(s) - 1))
    ELSE s

strip(s) == rstrip(lstrip(s))

\* whether pattern p, compared ignoring case, sits in s at position i
MatchesAtIgnoreCase(s, i, p) ==
    /\ i + Len(p) - 1 <= Len(s)
    /\ \A k \in 1..Len(p) : UpperChar(s[i + k - 1]) = UpperChar(p[k])

-----------------------------------------------------------------------------
(* infrastructure/models.py: python_type_map, in the dict's insertion order *)

\* a map that registers TEXT under two types
python_type_map_overlapping ==
    << << "str",   { <<"T", "E", "X", "T">>, <<"C", "H", "A", "R">> } >>,
       << "bytes", { <<"B", "L", "O", "B">>, <<"T", "E", "X", "T">> } >> >>

python_type_map ==
    <<
       << "str",
          { <<"T", "E", "X", "T">>,
            <<"C", "H", "A", "R">>,
            <<"V", "A", "R", "C", "H", "A", "R">>,
            <<"N", "V", "A", "R", "C", "H", "A", "R">>,
            <<"C", "L", "O", "B">>,
            <<"C", "H", "A", "R", "A", "C", "T", "E", "R", " ",
              "V", "A", "R", "Y", "I", "N", "G">> } >>,
       << "int",
          { <<"I", "N", "T">>,
            <<"I", "N", "T", "E", "G", "E", "R">>,
            <<"S", "M", "A", "L", "L", "I", "N", "T">>,
            <<"B", "I", "G", "I", "N", "T">>,
            <<"S", "E", "R", "I", "A", "L">> } >>,
       << "float",
          { <<"R", "E", "A", "L">>,
            <<"D", "O", "U", "B", "L", "E", " ",
              "P", "R", "E", "C", "I", "S", "I", "O", "N">>,
            <<"N", "U", "M", "E", "R", "I", "C">>,
            <<"D", "E", "C", "I", "M", "A", "L">> } >>,
       << "bool",
          { <<"B", "O", "O", "L", "E", "A", "N">> } >>,
       << "date",
          { <<"D", "A", "T", "E">> } >>,
       << "datetime",
          { <<"D", "A", "T", "E", "T", "I", "M", "E">>,
            <<"D", "A", "T", "E", "T", "I", "M", "E", "2">>,
            <<"T", "I", "M", "E", "S", "T", "A", "M", "P", " ",
              "W", "I", "T", "H", "O", "U", "T", " ",
              "T", "I", "M", "E", " ", "Z", "O", "N", "E">> } >>,
       << "bytes",
          { <<"B", "L", "O", "B">>,
            <<"B", "Y", "T", "E", "A">>,
            <<"V", "A", "R", "B", "I", "N", "A", "R", "Y">> } >>
    >>

\* DbBase._db_type_to_python_type as the class body builds it: the dict
\* comprehension walks the map in order and a later entry overwrites an
\* earlier one with the same key, so a spelling's type is that of the last
\* map entry that lists it
DbBase_db_type_to_python_type ==
    [key \in UNION {python_type_map[i][2] : i \in DOMAIN python_type_map} |->
        LET hits == {i \in DOMAIN python_type_map :
                         key \in python_type_map[i][2]}
        IN  python_type_map[CHOOSE i \in hits : \A j \in hits : j <= i][1]]

db_type_to_python_type_get_str(key) ==
    IF key \in DOMAIN lookup THEN lookup[key] ELSE "str"

\* self._db_type_to_python_type.get(key, None)
db_type_to_python_type_get(key) ==
    IF key \in DOMAIN lookup THEN lookup[key] ELSE "None"

\* re.sub(r"\(.*\)", "", s): the leftmost "(" that has a ")" after it, and,
\* greedily, everything up to the last ")"
SubParens(s) ==
    LET closes == {j \in DOMAIN s : s[j] = ")"}
        opens  == {i \in DOMAIN s : s[i] = "(" /\ \E j \in closes : j > i}
    IN  IF opens = {}
        THEN s
        ELSE LET i == CHOOSE x \in opens  : \A y \in opens  : x <= y
                 j == CHOOSE x \in closes : \A y \in closes : y <= x
             IN  SubSeq(s, 1, i - 1) \o SubSeq(s, j + 1, Len(s))

UNSIGNED == <<"U", "N", "S", "I", "G", "N", "E", "D">>
ZEROFILL == <<"Z", "E", "R", "O", "F", "I", "L", "L">>

\* re.sub(r"\sUNSIGNED|\sZEROFILL", "", s, flags=re.IGNORECASE), scanning
\* from position i
RECURSIVE SubQualifiersFrom(_, _)
SubQualifiersFrom(s, i) ==
    IF i > Len(s)
    THEN <<>>
    ELSE IF /\ IsSpace(s[i])
            /\ \/ MatchesAtIgnoreCase(s, i + 1, UNSIGNED)
               \/ MatchesAtIgnoreCase(s, i + 1, ZEROFILL)
         THEN SubQualifiersFrom(s, i + 1 + Len(UNSIGNED))
         ELSE <<s[i]>> \o SubQualifiersFrom(s, i + 1)

DbBase_get_python_type_exact_case(native_spelling) ==
    LET normalized_db_type == SubQualifiersFrom(strip(SubParens(native_spelling)), 1)
    IN  db_type_to_python_type_get(normalized_db_type)

\* DbBase._get_python_type
DbBase_get_python_type(native_spelling) ==
    LET normalized_db_type == SubQualifiersFrom(strip(SubParens(native_spelling)), 1)
    IN  db_type_to_python_type_get(upper(normalized_db_type))

\* models.DbColumn
DbColumn(name, datatype, is_nullable) ==
    [name |-> name, datatype |-> datatype, is_nullable |-> is_nullable]

\* types.DbSchema, a dict: key/value pairs in insertion order; assigning to
\* a key already present replaces its value in place
DictSet(d, k, v) ==
    IF \E i \in DOMAIN d : d[i][1] = k
    THEN [i \in DOMAIN d |-> IF d[i][1] = k THEN <<k, v>> ELSE d[i]]
    ELSE Append(d, <<k, v>>)

DictKeys(d) == {d[i][1] : i \in DOMAIN d}

DictGet(d, k) == d[CHOOSE i \in DOMAIN d : d[i][1] = k][2]

-----------------------------------------------------------------------------
(* The inspected database: its catalog, as any session sees it.  Its       *)
(* tables and views are in the schema `public`; a PostgreSQL session's     *)
(* current schema is `public` or another schema, which holds no relation.  *)

Names == {"test_table", "test_table_2"}

\* two more names a SQLite database can hold as type 'table': the internal
\* table SQLite keeps for AUTOINCREMENT, and a user table
SqliteNames == {"sqlite_sequence", "sqlitedata"}

\* the order in which the catalog returns its rows
CatalogOrder ==
    SelectSeq(<<"test_table", "test_table_2", "sqlite_sequence", "sqlitedata">>,
              LAMBDA n : n \in DOMAIN catalog)

NameChars(n) ==
    IF n = "test_table"
    THEN <<"t", "e", "s", "t", "_", "t", "a", "b", "l", "e">>
    ELSE IF n = "test_table_2"
    THEN <<"t", "e", "s", "t", "_", "t", "a", "b", "l", "e", "_", "2">>
    ELSE IF n = "sqlite_sequence"
    THEN <<"s", "q", "l", "i", "t", "e", "_",
           "s", "e", "q", "u", "e", "n", "c", "e">>
    ELSE <<"s", "q", "l", "i", "t", "e", "d", "a", "t", "a">>

Absent == [kind |-> "absent", layout |-> "none"]

\* what another session may create under each name
Creatable(n) ==
    IF n = "test_table"
    THEN {[kind |-> "BASE TABLE", layout |-> "wide"],
          [kind |-> "BASE TABLE", layout |-> "fixture_1"]}
         \cup (IF type_arg.kind = "none"
               THEN {}
               ELSE {[kind |-> "BASE TABLE", layout |-> "probed"]})
    ELSE IF n = "test_table_2"
    THEN {[kind |-> "VIEW", layout |-> "narrow"],
          [kind |-> "BASE TABLE", layout |-> "fixture_2"]}
    ELSE {[kind |-> "BASE TABLE", layout |-> "narrow"]}

YES == <<"Y", "E", "S">>
NO == <<"N", "O">>

\* the columns of a layout: name, declared type as the catalog spells it,
\* and whether the column is declared NOT NULL
Columns(layout) ==
    IF layout = "wide"
    THEN << [name |-> "id",
             type |-> <<"i", "n", "t", "e", "g", "e", "r">>,
             notnull |-> TRUE],
            [name |-> "name",
             type |-> <<"V", "A", "R", "C", "H", "A", "R",
                        "(", "2", "5", "5", ")">>,
             notnull |-> TRUE],
            [name |-> "description",
             type |-> <<"j", "s", "o", "n">>,
             notnull |-> FALSE] >>
    ELSE IF layout = "narrow"
    THEN << [name |-> "id",
             type |-> <<"i", "n", "t", " ",
                        "u", "n", "s", "i", "g", "n", "e", "d">>,
             notnull |-> TRUE] >>
    ELSE IF layout = "fixture_1"
    THEN << [name |-> "id",
             type |-> <<"i", "n", "t", "e", "g", "e", "r">>,
             notnull |-> TRUE],
            [name |-> "name",
             type |-> <<"v", "a", "r", "c", "h", "a", "r", "(", "2", "5", "5", ")">>,
             notnull |-> TRUE],
            [name |-> "email",
             type |-> <<"v", "a", "r", "c", "h", "a", "r", "(", "2", "5", "5", ")">>,
             notnull |-> TRUE],
            [name |-> "date_of_birth",
             type |-> <<"d", "a", "t", "e">>,
             notnull |-> FALSE],
            [name |-> "timestamp",
             type |-> <<"d", "a", "t", "e", "t", "i", "m", "e">>,
             notnull |-> TRUE],
            [name |-> "description",
             type |-> <<"t", "e", "x", "t">>,
             notnull |-> FALSE] >>
    ELSE IF layout = "fixture_2"
    THEN << [name |-> "id",
             type |-> <<"i", "n", "t", "e", "g", "e", "r">>,
             notnull |-> TRUE],
            [name |-> "product_name",
             type |-> <<"v", "a", "r", "c", "h", "a", "r", "(", "2", "5", "5", ")">>,
             notnull |-> TRUE],
            [name |-> "product_description",
             type |-> <<"t", "e", "x", "t">>,
             notnull |-> TRUE],
            [name |-> "product_price",
             type |-> <<"d", "e", "c", "i", "m", "a", "l", "(", "1", "0", ",", "2", ")">>,
             notnull |-> TRUE],
            [name |-> "timestamp",
             type |-> <<"d", "a", "t", "e", "t", "i", "m", "e">>,
             notnull |-> TRUE] >>
    ELSE IF layout = "probed"
    THEN << [name |-> "id",
             type |-> <<"i", "n", "t", "e", "g", "e", "r">>,
             notnull |-> TRUE],
            [name |-> "probed",
             type |-> type_arg.spelling,
             notnull |-> FALSE],
            [name |-> "name",
             type |-> <<"t", "e", "x", "t">>,
             notnull |-> TRUE] >>
    ELSE << >>

Exists(n) == catalog[n].kind # "absent"
IsBaseTable(n) == catalog[n].kind = "BASE TABLE"

\* SQLite's `name LIKE 'sqlite_%'`: LIKE ignores ASCII case, `_` stands for
\* any one character and `%` for any run of characters
LikeSqliteInternal(n) ==
    /\ Len(NameChars(n)) >= 7
    /\ MatchesAtIgnoreCase(NameChars(n), 1, <<"s", "q", "l", "i", "t", "e">>)

\* SELECT name FROM sqlite_master WHERE type='table' AND name NOT LIKE 'sqlite_%'
sqlite_master_tables ==
    SelectSeq(CatalogOrder, LAMBDA n : IsBaseTable(n) /\ ~LikeSqliteInternal(n))

\* SELECT EXISTS(SELECT 1 FROM sqlite_master WHERE type='table' AND name = t)
sqlite_master_exists(t) == IF IsBaseTable(t) THEN 1 ELSE 0

\* PRAGMA table_info(t): one row per column, no row for an unknown name
pragma_table_info(t) ==
    LET cols == Columns(catalog[t].layout)
    IN  [i \in DOMAIN cols |->
            [name |-> cols[i].name, type |-> cols[i].type,
             notnull |-> IF cols[i].notnull THEN 1 ELSE 0]]

\* information_schema.tables WHERE table_type = 'BASE TABLE' (PostgreSQL with
\* table_schema = 'public', SQL Server database-qualified)
information_schema_base_tables == SelectSeq(CatalogOrder, IsBaseTable)

\* SELECT to_regclass('<schema>.<t>'): NULL when the schema has no relation
\* of the name
to_regclass(schema, t) ==
    IF schema = "public" /\ Exists(t) THEN t ELSE "NULL"

\* information_schema.columns for table_name = t: tables and views have
\* rows, an unknown name has none
information_schema_columns(t) ==
    LET cols == Columns(catalog[t].layout)
    IN  [i \in DOMAIN cols |->
            [column_name |-> cols[i].name, data_type |-> cols[i].type,
             is_nullable |-> IF cols[i].notnull THEN NO ELSE YES]]

\* MySQL's SHOW TABLES: the tables and the views of the database
show_tables == SelectSeq(CatalogOrder, Exists)

\* MySQL's DESCRIBE t (the server answers an unknown name with error 1146)
describe(t) ==
    LET cols == Columns(catalog[t].layout)
    IN  [i \in DOMAIN cols |->
            [Field |-> cols[i].name, Type |-> cols[i].type,
             Null |-> IF cols[i].notnull THEN NO ELSE YES]]

-----------------------------------------------------------------------------
(* The native connection object *)

FreeHandle ==
    [state |-> "free", owner |-> "nobody", closes |-> 0,
     current_schema |-> "none"]

\* a connection object the driver has just returned to adapter a, its
\* session in the given current schema
OpenHandle(a, schema) ==
    [state |-> "open", owner |-> a, closes |-> 0, current_schema |-> schema]

\* SELECT CURRENT_SCHEMA of a new session: the first schema of the role's
\* search_path that exists; the other engines' queries name no schema of
\* the session
CurrentSchemas(engine) ==
    IF engine = "POSTGRES" THEN {"public", "other"} ELSE {"public"}

\* sqlite3.connect / psycopg.connect / mysql.connector.connect /
\* pyodbc.connect: a connection, or the driver's Error
NativeAccepts(params) == params = "accepted"

\* Connection.cursor() of sqlite3 raises ProgrammingError on a closed
\* connection; psycopg's and pyodbc's `closed`, mysql.connector's
\* is_connected() report the same fact
TransportOpen(h) == native[h].state = "open"

\* What can go wrong below the adapter during one catalog call that got past
\* its status check:
\*   none                the driver answers
\*   drop_before_cursor  the transport closes before the cursor is opened
\*   drop_during_query   the transport closes while the query runs
\*   error               the driver raises for another reason (lock timeout,
\*                       not a database file, permission denied); the
\*                       transport stays open
Faults == {"none", "drop_before_cursor", "drop_during_query", "error"}
Drops == {"drop_before_cursor", "drop_during_query"}

-----------------------------------------------------------------------------
(* Outcomes of a call: what it returned or raised, and whether it issued a *)
(* catalog query on the handle                                             *)

Returned(value, queried) ==
    [status |-> "ok", err |-> NoError, value |-> value, queried |-> queried]

Raised(err, queried) ==
    [status |-> "raised", err |-> err, value |-> <<>>, queried |-> queried]

-----------------------------------------------------------------------------
(* get_connection_status, per adapter *)

SqliteDbConnection_get_connection_status(a) ==
    IF connection[a] # None
    THEN IF TransportOpen(connection[a])
         THEN "CONNECTED"
         ELSE "DISCONNECTED"     \* except sqlite3.ProgrammingError
    ELSE "DISCONNECTED"

\* the inverted reading of the closed flag: a handle whose transport is
\* reported closed counts as connected
PostgresDbConnection_get_connection_status_inverted(a) ==
    IF connection[a] # None /\ ~TransportOpen(connection[a])
    THEN "CONNECTED"
    ELSE "DISCONNECTED"

PostgresDbConnection_get_connection_status(a) ==
    IF connection[a] # None /\ TransportOpen(connection[a])
    THEN "CONNECTED"
    ELSE "DISCONNECTED"

MySqlDbConnection_get_connection_status(a) ==
    IF connection[a] # None /\ TransportOpen(connection[a])
    THEN "CONNECTED"
    ELSE "DISCONNECTED"

MSSqlDbConnection_get_connection_status(a) ==
    IF connection[a] # None /\ TransportOpen(connection[a])
    THEN "CONNECTED"
    ELSE "DISCONNECTED"

get_connection_status(a) ==
    CASE db_type[a] = "SQLITE"   -> SqliteDbConnection_get_connection_status(a)
      [] db_type[a] = "POSTGRES" -> PostgresDbConnection_get_connection_status(a)
      [] db_type[a] = "MYSQL"    -> MySqlDbConnection_get_connection_status(a)
      [] db_type[a] = "MSSQL"    -> MSSqlDbConnection_get_connection_status(a)

\* the property `connection`: the native connection object, as it is
DbBase_connection(a) == connection[a]

\* the check every get_tables and get_columns starts with:
\*   self._connection is None
\*   or self.get_connection_status() == ConnectionStatus.DISCONNECTED
connection_is_closed(a) ==
    \/ connection[a] = None
    \/ get_connection_status(a) = "DISCONNECTED"

-----------------------------------------------------------------------------
(* _connect, per adapter: the outcome for the given parameters *)

ConnectionFailed(cause) == <<"Connection to database failed:", cause>>

SqliteDbConnection_connect(params) ==
    IF NativeAccepts(params)
    THEN Returned(<<>>, FALSE)
    ELSE Raised(DatabaseConnectionError(ConnectionFailed("sqlite3.Error"),
                                        "SQLITE"), FALSE)

PostgresDbConnection_connect(params) ==
    IF NativeAccepts(params)
    THEN Returned(<<>>, FALSE)
    ELSE Raised(DatabaseConnectionError(ConnectionFailed("psycopg.Error"),
                                        "POSTGRES"), FALSE)

MySqlDbConnection_connect(params) ==
    IF NativeAccepts(params)
    THEN Returned(<<>>, FALSE)
    ELSE Raised(DatabaseConnectionError(ConnectionFailed("mysql.connector.Error"),
                                        "MYSQL"), FALSE)

MSSqlDbConnection_connect(params) ==
    IF NativeAccepts(params)
    THEN Returned(<<>>, FALSE)
    ELSE Raised(DbConnectionError(ConnectionFailed("pyodbc.Error"),
                                  "MSSQL"), FALSE)

connect_outcome(engine, params) ==
    CASE engine = "SQLITE"   -> SqliteDbConnection_connect(params)
      [] engine = "POSTGRES" -> PostgresDbConnection_connect(params)
      [] engine = "MYSQL"    -> MySqlDbConnection_connect(params)
      [] engine = "MSSQL"    -> MSSqlDbConnection_connect(params)

-----------------------------------------------------------------------------
(* get_tables, per adapter: the outcome under the given fault *)

UnexpectedlyClosed(label) ==
    <<"Connection to", label, "database was unexpectedly closed.">>

SqliteDbConnection_get_tables(a, fault) ==
    IF connection_is_closed(a)
    THEN Raised(DatabaseConnectionError(UnexpectedlyClosed("SQLite"),
                                        "SQLITE"), FALSE)
    ELSE IF fault # "none"
    THEN Raised(NativeError("sqlite3.Error"), TRUE)
    ELSE Returned(sqlite_master_tables, TRUE)

PostgresDbConnection_get_tables(a, fault) ==
    IF connection_is_closed(a)
    THEN Raised(DatabaseConnectionError(UnexpectedlyClosed("PostgreSQL"),
                                        "POSTGRES"), FALSE)
    ELSE IF fault = "drop_before_cursor"
    THEN Raised(NativeError("psycopg.Error"), FALSE)
    ELSE IF fault # "none"
    THEN Raised(NativeError("psycopg.Error"), TRUE)
    ELSE Returned(information_schema_base_tables, TRUE)

MySqlDbConnection_get_tables(a, fault) ==
    IF connection_is_closed(a)
    THEN Raised(DatabaseConnectionError(UnexpectedlyClosed("MySQL"),
                                        "MYSQL"), FALSE)
    ELSE IF fault = "drop_before_cursor"
    THEN Raised(NativeError("mysql.connector.Error"), FALSE)
    ELSE IF fault # "none"
    THEN Raised(NativeError("mysql.connector.Error"), TRUE)
    ELSE Returned(show_tables, TRUE)

MSSqlDbConnection_get_tables(a, fault) ==
    IF connection_is_closed(a)
    THEN Raised(DbConnectionError(UnexpectedlyClosed("SQL Server"),
                                  "MSSQL"), FALSE)
    ELSE IF fault = "drop_before_cursor"
    THEN Raised(NativeError("pyodbc.Error"), FALSE)
    ELSE IF fault # "none"
    THEN Raised(NativeError("pyodbc.Error"), TRUE)
    ELSE Returned(information_schema_base_tables, TRUE)

get_tables(a, fault) ==
    CASE db_type[a] = "SQLITE"   -> SqliteDbConnection_get_tables(a, fault)
      [] db_type[a] = "POSTGRES" -> PostgresDbConnection_get_tables(a, fault)
      [] db_type[a] = "MYSQL"    -> MySqlDbConnection_get_tables(a, fault)
      [] db_type[a] = "MSSQL"    -> MSSqlDbConnection_get_tables(a, fault)

-----------------------------------------------------------------------------
(* get_columns, per adapter: the outcome under the given fault *)

\* is_nullable=c["notnull"] == 0
SqliteDbConnection_is_nullable(notnull) == notnull = 0

PostgresDbConnection_is_nullable_exact(is_nullable) ==
    is_nullable = <<"y", "e", "s">>

\* is_nullable=c["is_nullable"].lower() == "yes"
PostgresDbConnection_is_nullable(is_nullable) ==
    lower(is_nullable) = <<"y", "e", "s">>

\* is_nullable=c["Null"].lower() == "yes"
MySqlDbConnection_is_nullable(Null) ==
    lower(Null) = <<"y", "e", "s">>

\* is_nullable=c["is_nullable"].lower() == "yes"
MSSqlDbConnection_is_nullable(is_nullable) ==
    lower(is_nullable) = <<"y", "e", "s">>

\* src/database, SqliteDbConnection.get_columns: is_nullable=not c[3]
database_SqliteDbConnection_is_nullable(notnull) == ~(notnull # 0)

\* src/database, PostgresDbConnection.get_columns:
\* is_nullable=False if c[2] == "NO" else True
database_PostgresDbConnection_is_nullable(is_nullable) ==
    IF is_nullable = NO THEN FALSE ELSE TRUE

TableDoesNotExist(table_name) ==
    <<"The specified table", table_name, "does not exist.">>

SqliteDbConnection_get_columns(a, table_name, fault) ==
    IF connection_is_closed(a)
    THEN Raised(DatabaseConnectionError(UnexpectedlyClosed("SQLite"),
                                        "SQLITE"), FALSE)
    ELSE IF fault # "none"
    THEN Raised(NativeError("sqlite3.Error"), TRUE)
    ELSE IF sqlite_master_exists(table_name) = 0
    THEN Raised(DatabaseTableNotFoundError(TableDoesNotExist(table_name),
                                           "SQLITE"), TRUE)
    ELSE LET columns == pragma_table_info(table_name)
         IN  Returned([i \in DOMAIN columns |->
                          DbColumn(columns[i].name,
                                   DbBase_get_python_type(columns[i].type),
                                   SqliteDbConnection_is_nullable(columns[i].notnull))],
                      TRUE)

PostgresDbConnection_get_columns(a, table_name, fault) ==
    IF connection_is_closed(a)
    THEN Raised(DatabaseConnectionError(UnexpectedlyClosed("PostgreSQL"),
                                        "POSTGRES"), FALSE)
    ELSE IF fault = "drop_before_cursor"
    THEN Raised(NativeError("psycopg.Error"), FALSE)
    ELSE IF fault # "none"
    THEN Raised(NativeError("psycopg.Error"), TRUE)
    ELSE IF to_regclass(native[connection[a]].current_schema,
                        table_name) = "NULL"
    THEN Raised(DatabaseTableNotFoundError(TableDoesNotExist(table_name),
                                           "POSTGRES"), TRUE)
    ELSE LET columns == information_schema_columns(table_name)
         IN  Returned([i \in DOMAIN columns |->
                          DbColumn(columns[i].column_name,
                                   DbBase_get_python_type(columns[i].data_type),
                                   PostgresDbConnection_is_nullable(columns[i].is_nullable))],
                      TRUE)

\* cursor() is opened outside the try; execute and the row loop are inside
\* it, and `except (MySQLError, MySQLProgrammingError)` takes every driver
\* error raised there for a missing table
MySqlDbConnection_get_columns(a, table_name, fault) ==
    IF connection_is_closed(a)
    THEN Raised(DatabaseConnectionError(UnexpectedlyClosed("MySQL"),
                                        "MYSQL"), FALSE)
    ELSE IF fault = "drop_before_cursor"
    THEN Raised(NativeError("mysql.connector.Error"), FALSE)
    ELSE IF fault # "none" \/ ~Exists(table_name)
    THEN Raised(DatabaseTableNotFoundError(TableDoesNotExist(table_name),
                                           "MYSQL"), TRUE)
    ELSE LET columns == describe(table_name)
         IN  Returned([i \in DOMAIN columns |->
                          DbColumn(columns[i].Field,
                                   DbBase_get_python_type(columns[i].Type),
                                   MySqlDbConnection_is_nullable(columns[i].Null))],
                      TRUE)

MSSqlDbConnection_get_columns_first_row(a, table_name, fault) ==
    IF connection_is_closed(a)
    THEN Raised(DbConnectionError(UnexpectedlyClosed("SQL Server"),
                                  "MSSQL"), FALSE)
    ELSE IF fault = "drop_before_cursor"
    THEN Raised(NativeError("pyodbc.Error"), FALSE)
    ELSE IF fault # "none"
    THEN Raised(NativeError("pyodbc.Error"), TRUE)
    ELSE LET columns == information_schema_columns(table_name)
         IN  Returned([i \in DOMAIN columns |->
                          DbColumn(columns[1].column_name,
                                   DbBase_get_python_type(columns[1].data_type),
                                   MSSqlDbConnection_is_nullable(columns[1].is_nullable))],
                      TRUE)

\* no existence check: an unknown name yields no rows and an empty list
MSSqlDbConnection_get_columns(a, table_name, fault) ==
    IF connection_is_closed(a)
    THEN Raised(DbConnectionError(UnexpectedlyClosed("SQL Server"),
                                  "MSSQL"), FALSE)
    ELSE IF fault = "drop_before_cursor"
    THEN Raised(NativeError("pyodbc.Error"), FALSE)
    ELSE IF fault # "none"
    THEN Raised(NativeError("pyodbc.Error"), TRUE)
    ELSE LET columns == information_schema_columns(table_name)
         IN  Returned([i \in DOMAIN columns |->
                          DbColumn(columns[i].column_name,
                                   DbBase_get_python_type(columns[i].data_type),
                                   MSSqlDbConnection_is_nullable(columns[i].is_nullable))],
                      TRUE)

get_columns(a, table_name, fault) ==
    CASE db_type[a] = "SQLITE"   -> SqliteDbConnection_get_columns(a, table_name, fault)
      [] db_type[a] = "POSTGRES" -> PostgresDbConnection_get_columns(a, table_name, fault)
      [] db_type[a] = "MYSQL"    -> MySqlDbConnection_get_columns(a, table_name, fault)
      [] db_type[a] = "MSSQL"    -> MSSqlDbConnection_get_columns(a, table_name, fault)

-----------------------------------------------------------------------------
(* The record of a completed call *)

NoCall ==
    [op |-> "none", arg |-> "none", fault |-> "none",
     pre |-> "none", preConn |-> None, existed |-> "none",
     layout |-> "none",
     status |-> "none", err |-> NoError, value |-> <<>>, queried |-> FALSE,
     calls |-> <<>>, raisedIn |-> NoError, baseTables |-> <<>>,
     objects |-> <<>>, again |-> "no", schema |-> "none"]

\* the base tables of the inspected database, in the catalog's order
BaseTables == SelectSeq(CatalogOrder, IsBaseTable)

\* the call `op(arg)` on adapter a, started in the current state, with
\* outcome out; calls are the calls it made on the adapter itself; objects
\* are the tables and views the catalog holds when get_tables is called;
\* again tells a get_tables or get_columns(t) that returned right after
\* another one that returned, with the catalog changed between the two;
\* schema is the current schema of the session the call runs in
Call(a, op, arg, fault, out, calls) ==
    [op |-> op, arg |-> arg, fault |-> fault,
     pre |-> get_connection_status(a), preConn |-> connection[a],
     existed |-> IF arg \in DOMAIN catalog THEN catalog[arg].kind
                 ELSE "none",
     layout |-> IF arg \in DOMAIN catalog THEN catalog[arg].layout
                ELSE "none",
     status |-> out.status, err |-> out.err, value |-> out.value,
     queried |-> out.queried, calls |-> calls, raisedIn |-> NoError,
     baseTables |-> BaseTables,
     objects |-> IF op = "get_tables" THEN show_tables ELSE <<>>,
     again |-> IF /\ op \in {"get_tables", "get_columns"}
                  /\ out.status = "ok"
                  /\ last[a].op = op
                  /\ last[a].arg = arg
                  /\ last[a].status = "ok"
                  /\ IF op = "get_tables"
                     THEN last[a].objects # show_tables
                     ELSE last[a].layout # catalog[arg].layout
               THEN "changed"
               ELSE "no",
     schema |-> IF connection[a] = None
                THEN "none"
                ELSE native[connection[a]].current_schema]

\* the instance exists: the constructor returned it
Alive == {"built", "scope", "exited"}

\* no call is running on the adapter (calls on one instance are serial)
Idle(a) == ex[a].pc = "idle"

IdleFrame ==
    [pc |-> "idle", pending |-> <<>>, schema |-> <<>>, calls |-> <<>>,
     pre |-> "none", preConn |-> None]

\* the faults the environment can inject into a catalog call of adapter a:
\* none when the call stops at its status check; an in-process SQLite
\* connection has no transport to lose
FaultsFor(a) ==
    IF connection_is_closed(a)
    THEN {"none"}
    ELSE IF db_type[a] \in NetworkEngines
    THEN Faults
    ELSE Faults \ Drops

\* the native handles after a catalog call of adapter a under fault
NativeAfter(a, fault) ==
    IF fault \in Drops
    THEN [native EXCEPT ![connection[a]].state = "closed"]
    ELSE native

-----------------------------------------------------------------------------
(* Construction: SqliteDbConnection.__init__, PostgresDbConnection.__init__, *)
(* MySqlDbConnection.__init__, MSSqlDbConnection.__init__ all run          *)
(* DbBase.__init__, set _connection to None and call _connect              *)

\* a driver that hands out one pooled connection object to every caller
NewHandlePooled == CHOOSE h \in Handles : \A g \in Handles : h <= g

\* the connection object a successful native connect returns: a new one
NewHandle == CHOOSE h \in Handles : native[h].state = "free"

instance_returned_always(out) == TRUE

\* __init__ calls self._connect() bare: when _connect raises, __init__
\* raises and the caller gets no instance
instance_returned(out) == out.status = "ok"

init(a, engine, params) ==
    /\ life[a] = "unbuilt"
    /\ \E h \in Handles : native[h].state = "free"
    /\ LET out == connect_outcome(engine, params)
       IN  /\ db_type' = [db_type EXCEPT ![a] = engine]
           /\ last' = [last EXCEPT ![a] =
                  [NoCall EXCEPT !.op = "__init__", !.arg = params,
                                 !.status = out.status, !.err = out.err]]
           /\ life' = [life EXCEPT ![a] =
                  IF instance_returned(out) THEN "built" ELSE "failed"]
           /\ IF out.status = "ok"
              THEN /\ connection' = [connection EXCEPT ![a] = NewHandle]
                   /\ \E schema \in CurrentSchemas(engine) :
                          native' = [native EXCEPT ![NewHandle] =
                                        OpenHandle(a, schema)]
              ELSE UNCHANGED <<connection, native>>
    /\ UNCHANGED <<catalog, ex>>
    /\ UNCHANGED tvars

-----------------------------------------------------------------------------
(* DbBase: the context manager and close *)

\* DbBase.close
DbBase_close(a) ==
    IF connection[a] # None /\ get_connection_status(a) = "CONNECTED"
    THEN /\ native' = [native EXCEPT ![connection[a]].state = "closed",
                                     ![connection[a]].closes = @ + 1]
         /\ connection' = [connection EXCEPT ![a] = None]
    ELSE UNCHANGED <<native, connection>>

\* a call of close() by the caller
close(a) ==
    /\ life[a] \in Alive
    /\ Idle(a)
    /\ DbBase_close(a)
    /\ last' = [last EXCEPT ![a] =
           Call(a, "close", "none", "none", Returned(<<>>, FALSE), <<>>)]
    /\ UNCHANGED <<life, db_type, catalog, ex>>
    /\ UNCHANGED tvars

\* DbBase.__enter__
DbBase_enter(a) ==
    /\ life[a] = "built"
    /\ Idle(a)
    /\ life' = [life EXCEPT ![a] = "scope"]
    /\ last' = [last EXCEPT ![a] =
           Call(a, "__enter__", "none", "none", Returned(<<>>, FALSE), <<>>)]
    /\ UNCHANGED <<db_type, connection, native, catalog, ex>>
    /\ UNCHANGED tvars

\* what DbBase.__exit__ returns: None, which is false, so the with
\* statement re-raises the exception the body raised
DbBase_exit_suppresses == FALSE

\* the exceptions the body can leave the scope with: none, the error of the
\* adapter call that just raised, or an exception of the body's own
BodyExceptions(a) ==
    {NoError, OtherException}
        \cup (IF last[a].status = "raised" THEN {last[a].err} ELSE {})

\* DbBase.__exit__, and what the with statement does with its result
DbBase_exit(a, exc) ==
    /\ life[a] = "scope"
    /\ Idle(a)
    /\ DbBase_close(a)
    /\ life' = [life EXCEPT ![a] = "exited"]
    /\ LET out == IF exc = NoError \/ DbBase_exit_suppresses
                  THEN Returned(<<>>, FALSE)
                  ELSE Raised(exc, FALSE)
       IN  last' = [last EXCEPT ![a] =
               [Call(a, "__exit__", "none", "none", out, <<>>)
                   EXCEPT !.raisedIn = exc]]
    /\ UNCHANGED <<db_type, catalog, ex>>
    /\ UNCHANGED tvars

\* the with statement leaves its body, normally or with an exception
leave_scope(a) == \E exc \in BodyExceptions(a) : DbBase_exit(a, exc)

status_resetting(a) ==
    /\ life[a] \in Alive
    /\ Idle(a)
    /\ last' = [last EXCEPT ![a] =
           Call(a, "get_connection_status", "none", "none",
                Returned(<<get_connection_status(a)>>, FALSE), <<>>)]
    /\ connection' = [connection EXCEPT ![a] =
           IF get_connection_status(a) = "CONNECTED" THEN @ ELSE None]
    /\ UNCHANGED <<life, db_type, native, catalog, ex>>
    /\ UNCHANGED tvars

\* a call of get_connection_status() by the caller
status(a) ==
    /\ life[a] \in Alive
    /\ Idle(a)
    /\ last' = [last EXCEPT ![a] =
           Call(a, "get_connection_status", "none", "none",
                Returned(<<get_connection_status(a)>>, FALSE), <<>>)]
    /\ UNCHANGED <<life, db_type, connection, native, catalog, ex>>
    /\ UNCHANGED tvars

-----------------------------------------------------------------------------
(* Catalog calls by the caller *)

\* a get_tables() that answers from the list the previous get_tables()
\* returned
tables_remembering(a, fault) ==
    /\ life[a] \in Alive
    /\ Idle(a)
    /\ fault \in FaultsFor(a)
    /\ native' = NativeAfter(a, fault)
    /\ LET out == get_tables(a, fault)
       IN  last' = [last EXCEPT ![a] =
               Call(a, "get_tables", "none", fault,
                    IF /\ out.status = "ok"
                       /\ last[a].op = "get_tables"
                       /\ last[a].status = "ok"
                    THEN Returned(last[a].value, FALSE)
                    ELSE out,
                    <<>>)]
    /\ UNCHANGED <<life, db_type, connection, catalog, ex>>
    /\ UNCHANGED tvars

\* a call of get_tables() by the caller
tables(a, fault) ==
    /\ life[a] \in Alive
    /\ Idle(a)
    /\ fault \in FaultsFor(a)
    /\ native' = NativeAfter(a, fault)
    /\ last' = [last EXCEPT ![a] =
           Call(a, "get_tables", "none", fault, get_tables(a, fault), <<>>)]
    /\ UNCHANGED <<life, db_type, connection, catalog, ex>>
    /\ UNCHANGED tvars

columns(a, table_name, fault) ==
    /\ life[a] \in Alive
    /\ Idle(a)
    /\ fault \in FaultsFor(a)
    /\ native' = NativeAfter(a, fault)
    /\ last' = [last EXCEPT ![a] =
           Call(a, "get_columns", table_name, fault,
                get_columns(a, table_name, fault), <<>>)]
    /\ UNCHANGED <<life, db_type, connection, catalog, ex>>
    /\ UNCHANGED tvars

-----------------------------------------------------------------------------
(* DbBase.extract_schema, one step per call it makes, so that the catalog  *)
(* and the transport can change between its calls                          *)

\* one entry of the log of calls extract_schema made on the adapter
Made(op, arg, out) ==
    [op |-> op, arg |-> arg, out |-> out,
     existed |-> IF arg \in DOMAIN catalog THEN catalog[arg].kind
                 ELSE "none",
     layout |-> IF arg \in DOMAIN catalog THEN catalog[arg].layout
                ELSE "none"]

NextTableFromEnd(pending) == pending[Len(pending)]

\* the order in which the for loop takes the tables
NextTable(pending) == Head(pending)

\* schema[table] = columns
Assign(schema, table, cols) == DictSet(schema, table, cols)

\* extract_schema() up to the return of get_tables(); with no table to
\* describe the loop body never runs and the empty schema is returned
extract_schema_begin(a, fault) ==
    /\ life[a] \in Alive
    /\ Idle(a)
    /\ fault \in FaultsFor(a)
    /\ native' = NativeAfter(a, fault)
    /\ LET out   == get_tables(a, fault)
           calls == <<Made("get_tables", "none", out)>>
       IN  IF out.status = "raised"
           THEN /\ last' = [last EXCEPT ![a] =
                       Call(a, "extract_schema", "none", fault,
                            Raised(out.err, out.queried), calls)]
                /\ ex' = ex
           ELSE IF out.value = <<>>
           THEN /\ last' = [last EXCEPT ![a] =
                       Call(a, "extract_schema", "none", fault,
                            Returned(<<>>, out.queried), calls)]
                /\ ex' = ex
           ELSE /\ ex' = [ex EXCEPT ![a] =
                       [pc |-> "extract", pending |-> out.value,
                        schema |-> <<>>, calls |-> calls,
                        pre |-> get_connection_status(a),
                        preConn |-> connection[a]]]
                /\ last' = last
    /\ UNCHANGED <<life, db_type, connection, catalog>>
    /\ UNCHANGED tvars

extract_schema_step_continue(a, fault) ==
    /\ ex[a].pc = "extract"
    /\ fault \in FaultsFor(a)
    /\ native' = NativeAfter(a, fault)
    /\ LET table == NextTable(ex[a].pending)
           out   == get_columns(a, table, fault)
           calls == Append(ex[a].calls, Made("get_columns", table, out))
           schema == IF out.status = "raised"
                     THEN ex[a].schema
                     ELSE Assign(ex[a].schema, table, out.value)
       IN  IF Len(ex[a].pending) = 1
           THEN /\ last' = [last EXCEPT ![a] =
                       [Call(a, "extract_schema", "none", fault,
                             Returned(schema, TRUE), calls)
                           EXCEPT !.pre = ex[a].pre,
                                  !.preConn = ex[a].preConn]]
                /\ ex' = [ex EXCEPT ![a] = IdleFrame]
           ELSE /\ ex' = [ex EXCEPT ![a].pending = Tail(@),
                                    ![a].schema = schema,
                                    ![a].calls = calls]
                /\ last' = last
    /\ UNCHANGED <<life, db_type, connection, catalog>>
    /\ UNCHANGED tvars

\* one turn of the loop: get_columns(table), then schema[table] = columns;
\* after the last table, the return
extract_schema_step(a, fault) ==
    /\ ex[a].pc = "extract"
    /\ fault \in FaultsFor(a)
    /\ native' = NativeAfter(a, fault)
    /\ LET table == NextTable(ex[a].pending)
           out   == get_columns(a, table, fault)
           calls == Append(ex[a].calls, Made("get_columns", table, out))
           done(o) == [Call(a, "extract_schema", "none", fault, o, calls)
                          EXCEPT !.pre = ex[a].pre, !.preConn = ex[a].preConn]
       IN  IF out.status = "raised"
           THEN /\ last' = [last EXCEPT ![a] = done(Raised(out.err, TRUE))]
                /\ ex' = [ex EXCEPT ![a] = IdleFrame]
           ELSE LET schema == Assign(ex[a].schema, table, out.value)
                IN  IF Len(ex[a].pending) = 1
                    THEN /\ last' = [last EXCEPT ![a] =
                                done(Returned(schema, TRUE))]
                         /\ ex' = [ex EXCEPT ![a] = IdleFrame]
                    ELSE /\ ex' = [ex EXCEPT ![a].pending = Tail(@),
                                             ![a].schema = schema,
                                             ![a].calls = calls]
                         /\ last' = last
    /\ UNCHANGED <<life, db_type, connection, catalog>>
    /\ UNCHANGED tvars

-----------------------------------------------------------------------------
(* The environment *)

\* the transport of an open handle closes: the server drops the session,
\* or the caller closes the native connection it got from `connection`
transport_drop(h) ==
    /\ native[h].state = "open"
    /\ native' = [native EXCEPT ![h].state = "closed"]
    /\ UNCHANGED <<life, db_type, connection, catalog, ex, last>>
    /\ UNCHANGED tvars

\* another session creates or drops an object
create_object(n, entry) ==
    /\ ~Exists(n)
    /\ entry \in Creatable(n)
    /\ catalog' = [catalog EXCEPT ![n] = entry]
    /\ UNCHANGED <<life, db_type, connection, native, ex, last>>
    /\ UNCHANGED tvars

drop_object(n) ==
    /\ Exists(n)
    /\ catalog' = [catalog EXCEPT ![n] = Absent]
    /\ UNCHANGED <<life, db_type, connection, native, ex, last>>
    /\ UNCHANGED tvars

-----------------------------------------------------------------------------
(* Specification: one adapter instance and the database it inspects *)

InitWith(slots) ==
    /\ life = [a \in Adapters |-> IF a \in slots THEN "unbuilt" ELSE "off"]
    /\ db_type = [a \in Adapters |-> "none"]
    /\ connection = [a \in Adapters |-> None]
    /\ native = [h \in Handles |-> FreeHandle]
    /\ catalog = [n \in Names |-> Absent]
    /\ ex = [a \in Adapters |-> IdleFrame]
    /\ last = [a \in Adapters |-> NoCall]
    /\ lookup = DbBase_db_type_to_python_type

\* no nullability translation under observation
NoFlags == [catalog |-> "none", flags |-> <<>>]

NullIdle ==
    /\ null_input = NoFlags
    /\ null_by = "none"
    /\ null_result = <<>>

\* no _get_python_type call under observation
NoProbe == [kind |-> "none", base |-> <<>>, spelling |-> <<>>]

Init ==
    /\ InitWith({"a1"})
    /\ type_arg = NoProbe
    /\ type_result = "unset"
    /\ NullIdle

Next ==
    \/ \E a \in Adapters, engine \in DatabaseType, params \in ConnParams :
           init(a, engine, params)
    \/ \E a \in Adapters : DbBase_enter(a)
    \/ \E a \in Adapters : leave_scope(a)
    \/ \E a \in Adapters : close(a)
    \/ \E a \in Adapters : status(a)
    \/ \E a \in Adapters, fault \in Faults : tables(a, fault)
    \/ \E a \in Adapters, t \in Names, fault \in Faults : columns(a, t, fault)
    \/ \E a \in Adapters, fault \in Faults : extract_schema_begin(a, fault)
    \/ \E a \in Adapters, fault \in Faults : extract_schema_step(a, fault)
    \/ \E h \in Handles : transport_drop(h)
    \/ \E n \in Names : \E entry \in Creatable(n) : create_object(n, entry)
    \/ \E n \in Names : drop_object(n)

Spec == Init /\ [][Next]_vars

-----------------------------------------------------------------------------
(* Specification: calls of DbBase._get_python_type on the spellings a      *)
(* catalog reports                                                         *)

\* every spelling python_type_map registers
Spellings == UNION {python_type_map[i][2] : i \in DOMAIN python_type_map}

\* str.capitalize()
capitalize(s) ==
    [i \in DOMAIN s |-> IF i = 1 THEN UpperChar(s[i]) ELSE LowerChar(s[i])]

\* a spelling as the engines write it: upper, lower or mixed case
LetterCases(s) == {s, lower(s), capitalize(s)}

\* a length or precision in parentheses, or none
Lengths ==
    { <<>>,
      <<"(", "2", "5", "5", ")">>,
      <<"(", "1", "0", ",", "2", ")">> }

\* MySQL's column qualifiers, or none
Qualifiers ==
    { <<>>,
      <<" ">> \o UNSIGNED,
      <<" ">> \o lower(UNSIGNED),
      <<" ">> \o ZEROFILL,
      <<" ">> \o capitalize(ZEROFILL),
      <<" ">> \o capitalize(UNSIGNED) \o <<" ">> \o lower(ZEROFILL) }

\* the ways a catalog spells a column of the registered type spelling s
Decorated(s) ==
    {c \o len \o q : c \in LetterCases(s), len \in Lengths, q \in Qualifiers}

\* spellings of column types that python_type_map does not register
Unregistered ==
    { <<>>,
      <<"J", "S", "O", "N">>,
      <<"U", "U", "I", "D">>,
      <<"T", "I", "N", "Y", "I", "N", "T">>,
      <<"F", "L", "O", "A", "T">>,
      <<"D", "O", "U", "B", "L", "E">>,
      <<"T", "I", "M", "E", "S", "T", "A", "M", "P">>,
      <<"T", "I", "M", "E">>,
      <<"M", "O", "N", "E", "Y">>,
      <<"B", "I", "T">>,
      <<"I", "N", "T", "4">>,
      <<"(", ")">>,
      UNSIGNED }

\* the arguments observed: the spelling passed, the bare spelling it
\* decorates, and whether python_type_map registers that bare spelling
TypeArgs ==
    UNION {{[kind |-> "registered", base |-> s, spelling |-> d]
               : d \in Decorated(s)} : s \in Spellings}
        \cup UNION {{[kind |-> "unregistered", base |-> u, spelling |-> d]
                        : d \in Decorated(u)} : u \in Unregistered}

\* self._get_python_type(db_type), as get_columns calls it for a column
get_python_type_call ==
    /\ type_arg.kind # "none"
    /\ type_result = "unset"
    /\ type_result' = DbBase_get_python_type(type_arg.spelling)
    /\ UNCHANGED <<life, db_type, connection, native, catalog, ex, last,
                   type_arg>>
    /\ UNCHANGED nvars

TypeInit ==
    /\ InitWith({})
    /\ type_arg \in TypeArgs
    /\ type_result = "unset"
    /\ NullIdle

TypeNext == get_python_type_call

TypeSpec == TypeInit /\ [][TypeNext]_vars

-----------------------------------------------------------------------------
(* Specification: a table with a column whose type python_type_map does    *)
(* not register, described by get_columns                                  *)

UnregisteredArgs == {t \in TypeArgs : t.kind = "unregistered"}

ColumnTypeInit ==
    /\ InitWith({"a1"})
    /\ type_arg \in UnregisteredArgs
    /\ type_result = "unset"
    /\ NullIdle

ColumnTypeNext ==
    \/ get_python_type_call
    \/ \E engine \in DatabaseType : init("a1", engine, "accepted")
    \/ create_object("test_table",
                     [kind |-> "BASE TABLE", layout |-> "probed"])
    \/ columns("a1", "test_table", "none")

ColumnTypeSpec == ColumnTypeInit /\ [][ColumnTypeNext]_vars

-----------------------------------------------------------------------------
(* Specification: the nullability flags of a table's column rows, turned   *)
(* into is_nullable by the row loop of each adapter's get_columns, the     *)
(* adapters of src/database included                                       *)

MaxColumns == 2

\* the adapters that read information_schema's is_nullable or DESCRIBE's
\* Null, and those that read table_info's notnull
TextFlagAdapters ==
    {"PostgresDbConnection", "MySqlDbConnection", "MSSqlDbConnection",
     "database.PostgresDbConnection"}
IntFlagAdapters == {"SqliteDbConnection", "database.SqliteDbConnection"}

\* "YES" and "NO" in upper, lower and mixed case
TextFlags == LetterCases(YES) \cup LetterCases(NO)

SeqsUpTo(S, n) == UNION {[1..k -> S] : k \in 1..n}

NullInputs ==
    {[catalog |-> "is_nullable", flags |-> f]
         : f \in SeqsUpTo(TextFlags, MaxColumns)}
        \cup {[catalog |-> "notnull", flags |-> f]
                 : f \in SeqsUpTo({0, 1}, MaxColumns)}

is_nullable(by, flag) ==
    CASE by = "SqliteDbConnection"   -> SqliteDbConnection_is_nullable(flag)
      [] by = "PostgresDbConnection" -> PostgresDbConnection_is_nullable(flag)
      [] by = "MySqlDbConnection"    -> MySqlDbConnection_is_nullable(flag)
      [] by = "MSSqlDbConnection"    -> MSSqlDbConnection_is_nullable(flag)
      [] by = "database.SqliteDbConnection" ->
             database_SqliteDbConnection_is_nullable(flag)
      [] by = "database.PostgresDbConnection" ->
             database_PostgresDbConnection_is_nullable(flag)

\* the row loop of get_columns of adapter class `by` over the rows
translate_flags(by) ==
    /\ null_by = "none"
    /\ \/ null_input.catalog = "is_nullable" /\ by \in TextFlagAdapters
       \/ null_input.catalog = "notnull" /\ by \in IntFlagAdapters
    /\ null_by' = by
    /\ null_result' = [i \in DOMAIN null_input.flags |->
                          is_nullable(by, null_input.flags[i])]
    /\ UNCHANGED <<life, db_type, connection, native, catalog, ex, last,
                   type_arg, type_result, null_input, lookup>>

NullInit ==
    /\ InitWith({})
    /\ type_arg = NoProbe
    /\ type_result = "unset"
    /\ null_input \in NullInputs
    /\ null_by = "none"
    /\ null_result = <<>>

NullNext ==
    \E by \in TextFlagAdapters \cup IntFlagAdapters : translate_flags(by)

NullSpec == NullInit /\ [][NullNext]_vars

-----------------------------------------------------------------------------
(* src/database: the older adapters, which connect on demand.  An instance *)
(* of them has no db_type attribute; db_type[a] holds its class, by which  *)
(* its calls dispatch.                                                     *)

DeferredClasses ==
    {"database.SqliteDbConnection", "database.PostgresDbConnection"}

\* an instance of the database_inspector package
EagerInstance(a) == db_type[a] \in DatabaseType

\* an instance of the src/database package
DeferredInstance(a) == db_type[a] \in DeferredClasses

DeferredDriverError(cls) ==
    IF cls = "database.SqliteDbConnection"
    THEN NativeError("sqlite3.Error")
    ELSE NativeError("psycopg.Error")

\* the builtin ConnectionError get_tables and get_columns raise without a
\* handle
ConnectionError(label) ==
    [kind |-> "ConnectionError", db_type |-> "none",
     message |-> <<"Connection to", label, "database was not established">>]

\* the call `op(arg)` on the deferred-connect adapter a, started in the
\* current state, with outcome out
database_Call(a, op, arg, out) ==
    [NoCall EXCEPT !.op = op, !.arg = arg, !.preConn = connection[a],
                   !.status = out.status, !.err = out.err,
                   !.value = out.value, !.queried = out.queried,
                   !.baseTables = BaseTables]

\* SqliteDbConnection.__init__ / PostgresDbConnection.__init__:
\* self._connection = None, nothing is opened
database_init(a, cls) ==
    /\ life[a] = "unbuilt"
    /\ cls \in DeferredClasses
    /\ life' = [life EXCEPT ![a] = "built"]
    /\ db_type' = [db_type EXCEPT ![a] = cls]
    /\ connection' = [connection EXCEPT ![a] = None]
    /\ last' = [last EXCEPT ![a] =
           database_Call(a, "__init__", "none", Returned(<<>>, FALSE))]
    /\ UNCHANGED <<native, catalog, ex>>
    /\ UNCHANGED tvars

\* sqlite3.connect(connection_params) / psycopg.connect(**connection_params)
database_native_connect(cls, params) ==
    IF NativeAccepts(params)
    THEN Returned(<<>>, FALSE)
    ELSE Raised(DeferredDriverError(cls), FALSE)

\* a connect that asks the driver whether or not a handle is held
database_connect_unguarded(a, params) ==
    /\ DeferredInstance(a)
    /\ life[a] \in Alive
    /\ \E h \in Handles : native[h].state = "free"
    /\ LET out == database_native_connect(db_type[a], params)
       IN  /\ last' = [last EXCEPT ![a] =
                  database_Call(a, "connect", params, out)]
           /\ IF out.status = "ok"
              THEN /\ connection' = [connection EXCEPT ![a] = NewHandle]
                   /\ native' = [native EXCEPT ![NewHandle] =
                          OpenHandle(a, "public")]
              ELSE UNCHANGED <<connection, native>>
    /\ UNCHANGED <<life, db_type, catalog, ex>>
    /\ UNCHANGED tvars

\* connect(connection_params):
\*   if not self._connection: self._connection = <driver>.connect(...)
database_connect(a, params) ==
    /\ DeferredInstance(a)
    /\ life[a] \in Alive
    /\ IF connection[a] = None
       THEN /\ \E h \in Handles : native[h].state = "free"
            /\ LET out == database_native_connect(db_type[a], params)
               IN  /\ last' = [last EXCEPT ![a] =
                          database_Call(a, "connect", params, out)]
                   /\ IF out.status = "ok"
                      THEN /\ connection' =
                                  [connection EXCEPT ![a] = NewHandle]
                           /\ native' = [native EXCEPT ![NewHandle] =
                                  OpenHandle(a, "public")]
                      ELSE UNCHANGED <<connection, native>>
       ELSE /\ last' = [last EXCEPT ![a] =
                   database_Call(a, "connect", params,
                                 Returned(<<>>, FALSE))]
            /\ UNCHANGED <<connection, native>>
    /\ UNCHANGED <<life, db_type, catalog, ex>>
    /\ UNCHANGED tvars

\* a close that leaves a handle alone once its transport has closed
database_DbBase_close_if_open(a) ==
    IF connection[a] # None /\ TransportOpen(connection[a])
    THEN /\ native' = [native EXCEPT ![connection[a]].state = "closed",
                                     ![connection[a]].closes = @ + 1]
         /\ connection' = [connection EXCEPT ![a] = None]
    ELSE UNCHANGED <<native, connection>>

\* close():
\*   if self._connection: self._connection.close(); self._connection = None
database_DbBase_close(a) ==
    IF connection[a] # None
    THEN /\ native' = [native EXCEPT ![connection[a]].state = "closed",
                                     ![connection[a]].closes = @ + 1]
         /\ connection' = [connection EXCEPT ![a] = None]
    ELSE UNCHANGED <<native, connection>>

\* a call of close() by the caller
database_close(a) ==
    /\ DeferredInstance(a)
    /\ life[a] \in Alive
    /\ database_DbBase_close(a)
    /\ last' = [last EXCEPT ![a] =
           database_Call(a, "close", "none", Returned(<<>>, FALSE))]
    /\ UNCHANGED <<life, db_type, catalog, ex>>
    /\ UNCHANGED tvars

\* database.DbBase.__enter__: return self; nothing keeps an instance from
\* being the subject of one with statement after another
database_DbBase_enter(a) ==
    /\ DeferredInstance(a)
    /\ life[a] \in {"built", "exited"}
    /\ life' = [life EXCEPT ![a] = "scope"]
    /\ last' = [last EXCEPT ![a] =
           database_Call(a, "__enter__", "none", Returned(<<>>, FALSE))]
    /\ UNCHANGED <<db_type, connection, native, catalog, ex>>
    /\ UNCHANGED tvars

\* database.DbBase.__exit__: self.close(); it returns None, so the with
\* statement re-raises the exception the body raised
database_DbBase_exit(a, exc) ==
    /\ DeferredInstance(a)
    /\ life[a] = "scope"
    /\ database_DbBase_close(a)
    /\ life' = [life EXCEPT ![a] = "exited"]
    /\ LET out == IF exc = NoError
                  THEN Returned(<<>>, FALSE)
                  ELSE Raised(exc, FALSE)
       IN  last' = [last EXCEPT ![a] =
               [database_Call(a, "__exit__", "none", out)
                   EXCEPT !.raisedIn = exc]]
    /\ UNCHANGED <<db_type, catalog, ex>>
    /\ UNCHANGED tvars

database_leave_scope(a) ==
    \E exc \in BodyExceptions(a) : database_DbBase_exit(a, exc)

\* get_tables(): ConnectionError without a handle; otherwise the query runs
\* on the handle, whose driver raises when the connection is closed
database_SqliteDbConnection_get_tables(a, fault) ==
    IF connection[a] = None
    THEN Raised(ConnectionError("SQLite"), FALSE)
    ELSE IF ~TransportOpen(connection[a]) \/ fault # "none"
    THEN Raised(NativeError("sqlite3.Error"), TRUE)
    ELSE Returned(sqlite_master_tables, TRUE)

database_PostgresDbConnection_get_tables(a, fault) ==
    IF connection[a] = None
    THEN Raised(ConnectionError("PostgreSQL"), FALSE)
    ELSE IF ~TransportOpen(connection[a]) \/ fault = "drop_before_cursor"
    THEN Raised(NativeError("psycopg.Error"), FALSE)
    ELSE IF fault # "none"
    THEN Raised(NativeError("psycopg.Error"), TRUE)
    ELSE Returned(information_schema_base_tables, TRUE)

database_get_tables(a, fault) ==
    IF db_type[a] = "database.SqliteDbConnection"
    THEN database_SqliteDbConnection_get_tables(a, fault)
    ELSE database_PostgresDbConnection_get_tables(a, fault)

\* the faults the environment can inject into a catalog call of the
\* deferred-connect adapter a
DeferredFaultsFor(a) ==
    IF connection[a] = None \/ ~TransportOpen(connection[a])
    THEN {"none"}
    ELSE IF db_type[a] = "database.PostgresDbConnection"
    THEN Faults
    ELSE Faults \ Drops

\* a call of get_tables() by the caller
database_tables(a, fault) ==
    /\ DeferredInstance(a)
    /\ life[a] \in Alive
    /\ fault \in DeferredFaultsFor(a)
    /\ native' = IF connection[a] = None THEN native
                 ELSE NativeAfter(a, fault)
    /\ last' = [last EXCEPT ![a] =
           [database_Call(a, "get_tables", "none",
                          database_get_tables(a, fault))
               EXCEPT !.fault = fault]]
    /\ UNCHANGED <<life, db_type, connection, catalog, ex>>
    /\ UNCHANGED tvars

-----------------------------------------------------------------------------
(* src/database: models.python_type_map and get_columns *)

\* src/database/models.py: python_type_map, in the dict's insertion order
database_python_type_map ==
    <<
       << "str",
          { <<"T", "E", "X", "T">>,
            <<"C", "H", "A", "R">>,
            <<"V", "A", "R", "C", "H", "A", "R">>,
            <<"N", "V", "A", "R", "C", "H", "A", "R">>,
            <<"C", "L", "O", "B">>,
            <<"C", "H", "A", "R", "A", "C", "T", "E", "R", " ",
              "V", "A", "R", "Y", "I", "N", "G">> } >>,
       << "int",
          { <<"I", "N", "T", "E", "G", "E", "R">>,
            <<"S", "M", "A", "L", "L", "I", "N", "T">>,
            <<"B", "I", "G", "I", "N", "T">>,
            <<"S", "E", "R", "I", "A", "L">> } >>,
       << "float",
          { <<"R", "E", "A", "L">>,
            <<"D", "O", "U", "B", "L", "E", " ",
              "P", "R", "E", "C", "I", "S", "I", "O", "N">>,
            <<"N", "U", "M", "E", "R", "I", "C">>,
            <<"D", "E", "C", "I", "M", "A", "L">> } >>,
       << "bool",
          { <<"B", "O", "O", "L", "E", "A", "N">> } >>,
       << "datetime",
          { <<"D", "A", "T", "E", "T", "I", "M", "E">>,
            <<"T", "I", "M", "E", "S", "T", "A", "M", "P", " ",
              "W", "I", "T", "H", "O", "U", "T", " ",
              "T", "I", "M", "E", " ", "Z", "O", "N", "E">> } >>,
       << "bytes",
          { <<"B", "L", "O", "B">>,
            <<"B", "Y", "T", "E", "A">>,
            <<"V", "A", "R", "B", "I", "N", "A", "R", "Y">> } >>
    >>

\* the dict get_columns builds on every call,
\*   {db_type: python_type for python_type, db_types in python_type_map.items()
\*                         for db_type in db_types},
\* and its .get(key, None): a later entry overwrites an earlier one
database_db_type_to_python_type_get(key) ==
    LET hits == {i \in DOMAIN database_python_type_map :
                     key \in database_python_type_map[i][2]}
    IN  IF hits = {}
        THEN "None"
        ELSE database_python_type_map[
                 CHOOSE i \in hits : \A j \in hits : j <= i][1]

\* get_columns(table_name) of src/database: no existence check; PRAGMA
\* table_info of an unknown name has no rows
database_SqliteDbConnection_get_columns(a, table_name, fault) ==
    IF connection[a] = None
    THEN Raised(ConnectionError("SQLite"), FALSE)
    ELSE IF ~TransportOpen(connection[a]) \/ fault # "none"
    THEN Raised(NativeError("sqlite3.Error"), TRUE)
    ELSE LET rows == pragma_table_info(table_name)
         IN  Returned([i \in DOMAIN rows |->
                          DbColumn(rows[i].name,
                                   database_db_type_to_python_type_get(
                                       upper(rows[i].type)),
                                   database_SqliteDbConnection_is_nullable(
                                       rows[i].notnull))],
                      TRUE)

database_PostgresDbConnection_get_columns(a, table_name, fault) ==
    IF connection[a] = None
    THEN Raised(ConnectionError("PostgreSQL"), FALSE)
    ELSE IF ~TransportOpen(connection[a]) \/ fault = "drop_before_cursor"
    THEN Raised(NativeError("psycopg.Error"), FALSE)
    ELSE IF fault # "none"
    THEN Raised(NativeError("psycopg.Error"), TRUE)
    ELSE LET rows == information_schema_columns(table_name)
         IN  Returned([i \in DOMAIN rows |->
                          DbColumn(rows[i].column_name,
                                   database_db_type_to_python_type_get(
                                       upper(rows[i].data_type)),
                                   database_PostgresDbConnection_is_nullable(
                                       rows[i].is_nullable))],
                      TRUE)

database_get_columns(a, table_name, fault) ==
    IF db_type[a] = "database.SqliteDbConnection"
    THEN database_SqliteDbConnection_get_columns(a, table_name, fault)
    ELSE database_PostgresDbConnection_get_columns(a, table_name, fault)

-----------------------------------------------------------------------------
(* src/services/schema_service.py: extract_db_schema(db_connection,        *)
(* connection_params), one step per call it makes on the adapter           *)

\* `with db_connection:` (__enter__) and db_connection.connect(params)
extract_db_schema_begin(a, params) ==
    /\ DeferredInstance(a)
    /\ life[a] \in {"built", "exited"}
    /\ Idle(a)
    /\ \E h \in Handles : native[h].state = "free"
    /\ LET out == IF connection[a] = None
                  THEN database_native_connect(db_type[a], params)
                  ELSE Returned(<<>>, FALSE)
       IN  /\ ex' = [ex EXCEPT ![a] =
                  [pc |-> IF out.status = "ok" THEN "tables" ELSE "leaving",
                   pending |-> <<>>, schema |-> <<>>,
                   calls |-> <<Made("connect", params, out)>>,
                   pre |-> "none", preConn |-> connection[a]]]
           /\ IF connection[a] = None /\ out.status = "ok"
              THEN /\ connection' = [connection EXCEPT ![a] = NewHandle]
                   /\ native' = [native EXCEPT ![NewHandle] =
                          OpenHandle(a, "public")]
              ELSE UNCHANGED <<connection, native>>
    /\ life' = [life EXCEPT ![a] = "scope"]
    /\ UNCHANGED <<db_type, catalog, last>>
    /\ UNCHANGED tvars

\* tables = db_connection.get_tables()
extract_db_schema_tables(a, fault) ==
    /\ ex[a].pc = "tables"
    /\ fault \in DeferredFaultsFor(a)
    /\ native' = IF connection[a] = None THEN native
                 ELSE NativeAfter(a, fault)
    /\ LET out == database_get_tables(a, fault)
       IN  ex' = [ex EXCEPT
                  ![a].pc = IF out.status = "raised" \/ out.value = <<>>
                            THEN "leaving" ELSE "columns",
                  ![a].pending = out.value,
                  ![a].calls = Append(@, Made("get_tables", "none", out))]
    /\ UNCHANGED <<life, db_type, connection, catalog, last>>
    /\ UNCHANGED tvars

\* one turn of the loop: columns = db_connection.get_columns(t), then
\* schema[t] = columns
extract_db_schema_step(a, fault) ==
    /\ ex[a].pc = "columns"
    /\ fault \in DeferredFaultsFor(a)
    /\ native' = IF connection[a] = None THEN native
                 ELSE NativeAfter(a, fault)
    /\ LET table == NextTable(ex[a].pending)
           out   == database_get_columns(a, table, fault)
       IN  ex' = [ex EXCEPT
                  ![a].pc = IF out.status = "raised" \/ Len(ex[a].pending) = 1
                            THEN "leaving" ELSE "columns",
                  ![a].pending = Tail(@),
                  ![a].schema = IF out.status = "raised" THEN @
                                ELSE Assign(@, table, out.value),
                  ![a].calls = Append(@, Made("get_columns", table, out))]
    /\ UNCHANGED <<life, db_type, connection, catalog, last>>
    /\ UNCHANGED tvars

\* the with statement is left, by `return schema` past it or by the
\* exception of the call that raised: __exit__ runs close() and returns
\* None, so the exception propagates
extract_db_schema_end(a) ==
    /\ ex[a].pc = "leaving"
    /\ database_DbBase_close(a)
    /\ life' = [life EXCEPT ![a] = "exited"]
    /\ LET calls == ex[a].calls
           final == calls[Len(calls)].out
           out   == IF final.status = "raised"
                    THEN Raised(final.err, Len(calls) > 1)
                    ELSE Returned(ex[a].schema, TRUE)
       IN  last' = [last EXCEPT ![a] =
               [database_Call(a, "extract_db_schema", calls[1].arg, out)
                   EXCEPT !.calls = calls, !.preConn = ex[a].preConn]]
    /\ ex' = [ex EXCEPT ![a] = IdleFrame]
    /\ UNCHANGED <<db_type, catalog>>
    /\ UNCHANGED tvars

-----------------------------------------------------------------------------
(* Specification: one deferred-connect adapter, the database it inspects,  *)
(* and a caller that uses it directly and through extract_db_schema        *)

ServiceNext ==
    \/ \E cls \in DeferredClasses : database_init("a1", cls)
    \/ \E params \in ConnParams : Idle("a1") /\ database_connect("a1", params)
    \/ Idle("a1") /\ database_close("a1")
    \/ \E params \in ConnParams : extract_db_schema_begin("a1", params)
    \/ \E fault \in Faults : extract_db_schema_tables("a1", fault)
    \/ \E fault \in Faults : extract_db_schema_step("a1", fault)
    \/ extract_db_schema_end("a1")
    \/ \E h \in Handles : transport_drop(h)
    \/ \E n \in Names : \E entry \in Creatable(n) :
           entry.layout # "wide" /\ create_object(n, entry)
    \/ \E n \in Names : drop_object(n)

ServiceSpec == Init /\ [][ServiceNext]_vars

-----------------------------------------------------------------------------
(* Specification: two adapter instances, of either package, over their     *)
(* whole lifetime                                                          *)

LifetimeInit ==
    /\ InitWith(Adapters)
    /\ type_arg = NoProbe
    /\ type_result = "unset"
    /\ NullIdle

LifetimeNext ==
    \/ \E a \in Adapters, engine \in DatabaseType, params \in ConnParams :
           init(a, engine, params)
    \/ \E a \in Adapters : EagerInstance(a) /\ DbBase_enter(a)
    \/ \E a \in Adapters : EagerInstance(a) /\ leave_scope(a)
    \/ \E a \in Adapters : EagerInstance(a) /\ close(a)
    \/ \E a \in Adapters, fault \in {"none"} :
           EagerInstance(a) /\ tables(a, fault)
    \/ \E a \in Adapters, cls \in DeferredClasses : database_init(a, cls)
    \/ \E a \in Adapters, params \in ConnParams : database_connect(a, params)
    \/ \E a \in Adapters : database_close(a)
    \/ \E a \in Adapters : database_DbBase_enter(a)
    \/ \E a \in Adapters : database_leave_scope(a)
    \/ \E a \in Adapters, fault \in Faults : database_tables(a, fault)
    \/ \E h \in Handles : transport_drop(h)

LifetimeSpec == LifetimeInit /\ [][LifetimeNext]_vars

-----------------------------------------------------------------------------
(* Specification: two instances of the database_inspector adapters over    *)
(* one database, their calls interleaved                                   *)

IndependenceNext ==
    \/ \E a \in Adapters, engine \in DatabaseType :
           init(a, engine, "accepted")
    \/ \E a \in Adapters : DbBase_enter(a)
    \/ \E a \in Adapters : leave_scope(a)
    \/ \E a \in Adapters : close(a)
    \/ \E a \in Adapters : columns(a, "test_table", "none")
    \/ \E h \in Handles : transport_drop(h)
    \/ create_object("test_table",
                     [kind |-> "BASE TABLE", layout |-> "fixture_1"])

IndependenceSpec == LifetimeInit /\ [][IndependenceNext]_vars

-----------------------------------------------------------------------------
(* Specification: the SQLite adapters of both packages list the tables of  *)
(* a database that also holds sqlite_sequence and sqlitedata               *)

SqliteNamesInit ==
    /\ life = [a \in Adapters |-> IF a = "a1" THEN "unbuilt" ELSE "off"]
    /\ db_type = [a \in Adapters |-> "none"]
    /\ connection = [a \in Adapters |-> None]
    /\ native = [h \in Handles |-> FreeHandle]
    /\ catalog = [n \in Names \cup SqliteNames |-> Absent]
    /\ ex = [a \in Adapters |-> IdleFrame]
    /\ last = [a \in Adapters |-> NoCall]
    /\ lookup = DbBase_db_type_to_python_type
    /\ type_arg = NoProbe
    /\ type_result = "unset"
    /\ NullIdle

SqliteNamesNext ==
    \/ \E a \in Adapters : init(a, "SQLITE", "accepted")
    \/ \E a \in Adapters : EagerInstance(a) /\ tables(a, "none")
    \/ \E a \in Adapters : database_init(a, "database.SqliteDbConnection")
    \/ \E a \in Adapters : database_connect(a, "accepted")
    \/ \E a \in Adapters : database_tables(a, "none")
    \/ \E n \in Names \cup SqliteNames : \E entry \in Creatable(n) :
           create_object(n, entry)
    \/ \E n \in Names \cup SqliteNames : drop_object(n)

SqliteNamesSpec == SqliteNamesInit /\ [][SqliteNamesNext]_vars

-----------------------------------------------------------------------------
(* Properties *)

\* the native handles adapter a has opened
Opened(a) == {h \in Handles : native[h].owner = a}

\* C1: once __exit__ has returned, `connection` is None and
\* get_connection_status() is DISCONNECTED, whatever happened inside the
\* scope; and inside the scope of a constructed adapter, before any close of
\* its handle, `connection` is not None and the status is CONNECTED.
C1_ExitedIsDisconnectedAndNone ==
    \A a \in Adapters :
        /\ life[a] = "exited" =>
               /\ connection[a] = None
               /\ get_connection_status(a) = "DISCONNECTED"
        /\ \A h \in Opened(a) :
               (life[a] \in {"built", "scope"} /\ native[h].state = "open") =>
                   /\ connection[a] = h
                   /\ get_connection_status(a) = "CONNECTED"

\* C2: when __exit__ has run, the connection the adapter opened has been
\* closed by exactly one native close(), and the exception the body raised
\* (if any) is the one that reaches the caller.
C2_ExitClosesOnceAndReraises ==
    \A a \in Adapters :
        last[a].op = "__exit__" =>
            /\ \A h \in Opened(a) :
                   native[h].state = "closed" /\ native[h].closes = 1
            /\ last[a].err = last[a].raisedIn
            /\ last[a].status = IF last[a].raisedIn = NoError
                                THEN "ok" ELSE "raised"

\* C3: close() never raises and leaves the adapter with handle None and
\* status DISCONNECTED, from whatever state it is called (an already closed
\* adapter included), and no handle sees more than one native close().
C3_CloseIdempotent ==
    \A a \in Adapters :
        last[a].op = "close" =>
            /\ last[a].status = "ok"
            /\ connection[a] = None
            /\ get_connection_status(a) = "DISCONNECTED"
            /\ \A h \in Opened(a) : native[h].closes <= 1

\* C4: get_tables() and get_columns(t) called on an adapter whose status is
\* DISCONNECTED (after close(), after scoped exit, after the transport
\* closed) raise DatabaseConnectionError with the adapter's own DatabaseType
\* and issue no catalog query.
C4_DisconnectedCatalogCallRaises ==
    \A a \in Adapters :
        ( /\ last[a].op \in {"get_tables", "get_columns"}
          /\ \/ last[a].pre = "DISCONNECTED"
             \/ last[a].preConn = None
             \/ life[a] = "exited" ) =>
            /\ last[a].status = "raised"
            /\ last[a].err.kind = "DatabaseConnectionError"
            /\ last[a].err.db_type = db_type[a]
            /\ ~last[a].queried

\* C5: a constructor whose parameters the native driver rejects raises
\* DatabaseConnectionError, whose str() starts with "Connection to database
\* failed:" and whose db_type is the DatabaseType of the class constructed.
C5_RejectedParamsRaiseConnectionError ==
    \A a \in Adapters :
        (last[a].op = "__init__" /\ last[a].arg = "rejected") =>
            /\ last[a].status = "raised"
            /\ last[a].err.kind = "DatabaseConnectionError"
            /\ Head(DatabaseError_str(last[a].err))
                   = "Connection to database failed:"
            /\ last[a].err.db_type = db_type[a]

\* C6: for PostgreSQL, MySQL and SQL Server the constructor either returns
\* an instance that holds a handle and is CONNECTED, or raises, returns no
\* instance and has opened no native handle; so every instance the caller
\* holds has been connected.
C6_EagerConstruction ==
    /\ [](\A a \in Adapters :
            db_type[a] \in NetworkEngines =>
                /\ life[a] \in Alive => Opened(a) # {}
                /\ life[a] = "failed" =>
                       /\ Opened(a) = {}
                       /\ connection[a] = None
                       /\ last[a].status = "raised")
    /\ [][\A a \in Adapters :
            (life[a] = "unbuilt" /\ life'[a] \in Alive
                /\ db_type'[a] \in NetworkEngines) =>
                /\ connection'[a] # None
                /\ native'[connection'[a]].state = "open"
                /\ native'[connection'[a]].owner = a]_vars

C6_Witness ==
    \E a \in Adapters :
        /\ db_type[a] \in NetworkEngines
        /\ life[a] = "failed"
        /\ last[a].op = "__init__"

\* C7: on a connected adapter whose driver answers, get_columns(t) for a
\* name t that is not in the catalog raises DatabaseTableNotFoundError (it
\* returns nothing, in particular no empty list).
C7_MissingTableRaises ==
    \A a \in Adapters :
        ( /\ last[a].op = "get_columns"
          /\ last[a].pre = "CONNECTED"
          /\ last[a].fault = "none"
          /\ last[a].existed = "absent" ) =>
            /\ last[a].status = "raised"
            /\ last[a].err.kind = "DatabaseTableNotFoundError"

\* the call that raised the error of call c: c itself, or the call that
\* extract_schema made last
Origin(c) ==
    IF c.op = "extract_schema"
    THEN LET made == c.calls[Len(c.calls)]
         IN  [op |-> made.op, arg |-> made.arg, existed |-> made.existed]
    ELSE [op |-> c.op, arg |-> c.arg, existed |-> c.existed]

\* C8: DatabaseTableNotFoundError is raised by get_columns alone, and only
\* when no table of the given name is in the catalog at the time of the
\* call (a closed transport or a driver error on an existing table is not
\* reported as table-not-found); it carries the table name and the
\* adapter's DatabaseType.
C8_TableNotFoundOnlyForMissingTable ==
    \A a \in Adapters :
        ( /\ last[a].err.kind = "DatabaseTableNotFoundError"
          /\ last[a].op # "__exit__" ) =>
            /\ Origin(last[a]).op = "get_columns"
            /\ Origin(last[a]).existed # "BASE TABLE"
            /\ last[a].err.message[2] = Origin(last[a]).arg
            /\ last[a].err.db_type = db_type[a]

\* C9: whatever a constructor, get_tables, get_columns or extract_schema
\* raises is a DatabaseConnectionError or a DatabaseTableNotFoundError,
\* also when the transport closes after the status check.
C9_OnlyTaxonomyErrors ==
    \A a \in Adapters :
        ( /\ last[a].op \in {"__init__", "get_tables", "get_columns",
                             "extract_schema"}
          /\ last[a].status = "raised" ) =>
            last[a].err.kind \in {"DatabaseConnectionError",
                                  "DatabaseTableNotFoundError"}

\* C10: an extract_schema() that returns has called get_tables() once, then
\* get_columns(t) once per returned name in the returned order, and returns
\* a dict whose keys are the returned names, each mapped to what
\* get_columns returned for it; with no table it calls get_columns never and
\* returns the empty dict.
C10_ExtractSchemaCallsAndResult ==
    \A a \in Adapters :
        (last[a].op = "extract_schema" /\ last[a].status = "ok") =>
            LET calls  == last[a].calls
                names  == calls[1].out.value
                schema == last[a].value
            IN  /\ calls[1].op = "get_tables"
                /\ Len(calls) = 1 + Len(names)
                /\ \A i \in DOMAIN names :
                       /\ calls[i + 1].op = "get_columns"
                       /\ calls[i + 1].arg = names[i]
                       /\ calls[i + 1].out.status = "ok"
                       /\ names[i] \in DictKeys(schema)
                       /\ DictGet(schema, names[i]) = calls[i + 1].out.value
                /\ DictKeys(schema) = {names[i] : i \in DOMAIN names}
                /\ Len(schema) = Cardinality(DictKeys(schema))

C10_Witness ==
    \E a \in Adapters :
        /\ last[a].op = "extract_schema"
        /\ last[a].status = "ok"
        /\ Len(last[a].value) = 2
        /\ last[a].value[1][2] # last[a].value[2][2]

\* C11: an extract_schema() in which get_tables() or a get_columns(t) raised
\* raises that very error: the raising call is the last call it made (no
\* retry, no get_columns for the tables after it), every call before it
\* returned, and nothing is returned (no partial schema); and an
\* extract_schema() that returns has seen no call raise.
C11_ExtractSchemaPropagatesFirstFailure ==
    \A a \in Adapters :
        last[a].op = "extract_schema" =>
            LET calls == last[a].calls
                final == calls[Len(calls)]
            IN  /\ \A i \in 1..(Len(calls) - 1) : calls[i].out.status = "ok"
                /\ \A i, j \in DOMAIN calls :
                       (calls[i].op = calls[j].op /\ calls[i].arg = calls[j].arg)
                           => i = j
                /\ last[a].status = final.out.status
                /\ last[a].status = "raised" =>
                       /\ last[a].err = final.out.err
                       /\ last[a].value = <<>>

\* a get_columns of the first of two tables raised: the second is never
\* described
C11_Witness ==
    \E a \in Adapters :
        /\ last[a].op = "extract_schema"
        /\ last[a].status = "raised"
        /\ Len(last[a].calls) = 2
        /\ Len(last[a].calls[1].out.value) = 2
        /\ last[a].calls[2].op = "get_columns"

\* a step changes what adapter a holds: another handle (or None) in
\* `connection`, a native close() on a handle of a, a handle newly taken
HandleStep(a) ==
    \/ connection'[a] # connection[a]
    \/ \E h \in Handles :
           /\ native'[h].owner = a
           /\ \/ native'[h].closes # native[h].closes
              \/ native'[h].owner # native[h].owner

\* C12: get_connection_status, get_tables, get_columns and extract_schema
\* neither open nor close the connection: after the call, returned or
\* raised, the adapter holds the handle (or None) it held before; every
\* step that changes the handle held, invokes the native close() or takes
\* a new handle is a step of __init__, close or __exit__, and none falls
\* inside a running extract_schema.
C12_InspectionKeepsTheHandle ==
    /\ [](\A a \in Adapters :
            last[a].op \in {"get_connection_status", "get_tables",
                            "get_columns", "extract_schema"} =>
                connection[a] = last[a].preConn)
    /\ [][\A a \in Adapters :
            HandleStep(a) =>
                /\ last'[a].op \in {"__init__", "close", "__exit__"}
                /\ ex[a].pc = "idle"
                /\ ex'[a].pc = "idle"]_vars

\* a get_columns that raised because the transport closed under it: the
\* adapter still holds the handle
C12_Witness ==
    \E a \in Adapters :
        /\ last[a].op = "get_columns"
        /\ last[a].status = "raised"
        /\ last[a].fault = "drop_during_query"
        /\ connection[a] # None
        /\ connection[a] = last[a].preConn

\* the type python_type_map registers spelling s under
RegisteredType(s) ==
    python_type_map[CHOOSE i \in DOMAIN python_type_map :
                        s \in python_type_map[i][2]][1]

\* C13: for every spelling s registered under type T, _get_python_type
\* returns T for s itself, for s in lower or mixed case, for s followed by a
\* parenthesized length or precision, and for s followed by UNSIGNED and/or
\* ZEROFILL in any letter case.
C13_RegisteredSpellingsMapToTheirType ==
    (type_result # "unset" /\ type_arg.kind = "registered") =>
        type_result = RegisteredType(type_arg.base)

\* varchar(255) with a qualifier in mixed case has been mapped
C13_Witness ==
    /\ type_arg.kind = "registered"
    /\ type_arg.base = <<"V", "A", "R", "C", "H", "A", "R">>
    /\ Len(type_arg.spelling) > Len(type_arg.base) + 8
    /\ type_arg.spelling[1] = "v"
    /\ type_result = "str"

\* C14: _get_python_type returns None for a spelling that normalizes to no
\* registered entry (it has no way to raise), and get_columns on a table
\* of the session's current schema with such a column returns all the
\* table's columns, that one with datatype None.
C14_UnknownTypeIsNone ==
    /\ (type_result # "unset" /\ type_arg.kind = "unregistered") =>
           type_result = "None"
    /\ \A a \in Adapters :
           ( /\ last[a].op = "get_columns"
             /\ last[a].existed = "BASE TABLE"
             /\ last[a].fault = "none"
             /\ last[a].pre = "CONNECTED"
             /\ last[a].schema = "public"
             /\ catalog[last[a].arg].layout = "probed"
             /\ type_arg.kind = "unregistered" ) =>
               /\ last[a].status = "ok"
               /\ Len(last[a].value) = 3
               /\ last[a].value[1].name = "id"
               /\ last[a].value[2] = DbColumn("probed", "None", TRUE)
               /\ last[a].value[3].name = "name"

\* MySQL described a table with a JSON column
C14_Witness ==
    \E a \in Adapters :
        /\ db_type[a] = "MYSQL"
        /\ last[a].op = "get_columns"
        /\ last[a].status = "ok"
        /\ catalog[last[a].arg].layout = "probed"
        /\ type_arg.base = <<"J", "S", "O", "N">>
        /\ type_result = "None"

\* C15: a get_tables() that returns, on any engine, returns exactly the
\* names of the base tables the catalog holds at the time of the call, in
\* the catalog's order: no view, and every base table.
C15_GetTablesReturnsBaseTablesOnly ==
    \A a \in Adapters :
        (last[a].op = "get_tables" /\ last[a].status = "ok") =>
            last[a].value = last[a].baseTables

\* tests/common.py
expected_test_table_columns ==
    << DbColumn("id", "int", FALSE),
       DbColumn("name", "str", FALSE),
       DbColumn("email", "str", FALSE),
       DbColumn("date_of_birth", "date", TRUE),
       DbColumn("timestamp", "datetime", FALSE),
       DbColumn("description", "str", TRUE) >>

expected_test_table_2_columns ==
    << DbColumn("id", "int", FALSE),
       DbColumn("product_name", "str", FALSE),
       DbColumn("product_description", "str", FALSE),
       DbColumn("product_price", "float", FALSE),
       DbColumn("timestamp", "datetime", FALSE) >>

expected_test_schema ==
    << <<"test_table", expected_test_table_columns>>,
       <<"test_table_2", expected_test_table_2_columns>> >>

\* one DbColumn per catalog column row, in the catalog's order: the row's
\* name, the type its spelling is registered under, nullable unless NOT NULL
ColumnsOf(layout) ==
    LET cols == Columns(layout)
    IN  [i \in DOMAIN cols |->
            DbColumn(cols[i].name,
                     DbBase_get_python_type(cols[i].type),
                     ~cols[i].notnull)]

FlagSaysNullable(input, i) ==
    IF input.catalog = "is_nullable"
    THEN upper(input.flags[i]) = YES
    ELSE input.flags[i] = 0

-----------------------------------------------------------------------------
(* The connection status *)

C19_DisconnectedMeansNoHandle ==
    \A a \in Adapters :
        life[a] \in Alive =>
            /\ get_connection_status(a) = "DISCONNECTED" =>
                   DbBase_connection(a) = None
            /\ get_connection_status(a) = "CONNECTED" =>
                   DbBase_connection(a) # None

-----------------------------------------------------------------------------
(* The lifetime of a handle *)

\* C20: an adapter opens at most one native connection in its lifetime:
\* once close() has run on a connected adapter, no operation on it brings
\* it back to Connected or gives it a new handle, and no native handle is
\* held by two adapter instances.
C20_OneNativeConnectionPerAdapter ==
    \A a \in Adapters :
        /\ Cardinality(Opened(a)) <= 1
        /\ (\E h \in Opened(a) : native[h].closes > 0) =>
               /\ connection[a] = None
               /\ \A h \in Opened(a) : native[h].state = "closed"
        /\ \A b \in Adapters \ {a} :
               connection[a] # None => connection[a] # connection[b]

-----------------------------------------------------------------------------
(* The deferred-connect adapters of src/database *)

\* C21: on a deferred-connect adapter that already holds a handle,
\* connect(params) is a no-op whatever the params: the handle stays and no
\* second native connection is opened; on a never-connected adapter it
\* opens exactly one connection, which the adapter then holds, or raises
\* and opens none.
C21_ConnectIsIdempotent ==
    [][\A a \in Adapters :
          (DeferredInstance(a) /\ last'[a].op = "connect") =>
              /\ connection[a] # None =>
                     /\ connection'[a] = connection[a]
                     /\ Opened(a)' = Opened(a)
                     /\ last'[a].status = "ok"
              /\ (connection[a] = None /\ Opened(a) = {}) =>
                     IF last'[a].status = "ok"
                     THEN /\ connection'[a] # None
                          /\ Opened(a)' = {connection'[a]}
                          /\ native'[connection'[a]].state = "open"
                     ELSE /\ connection'[a] = None
                          /\ Opened(a)' = {}]_vars

\* connect was called with parameters the driver rejects on an adapter that
\* holds an open handle, and the adapter still holds it
C21_Witness ==
    \E a \in Adapters :
        /\ DeferredInstance(a)
        /\ last[a].op = "connect"
        /\ last[a].arg = "rejected"
        /\ last[a].preConn # None
        /\ connection[a] = last[a].preConn
        /\ Cardinality(Opened(a)) = 1

\* C22: whenever __enter__ returns normally the adapter is connected:
\* its status is CONNECTED and its handle is not None, in whatever state
\* __enter__ was called.  (__enter__ assigns nothing, so the state it
\* returns in is the state it was called in, which the record keeps.)
C22_EnterLeavesConnected ==
    \A a \in Adapters :
        (last[a].op = "__enter__" /\ last[a].status = "ok") =>
            /\ last[a].pre = "CONNECTED"
            /\ last[a].preConn # None

\* C23: extract_db_schema(db_connection, connection_params) calls connect,
\* then get_tables, then get_columns once per table in the order of the
\* list, and leaves the scope: whenever it has returned or raised, a
\* failing connect included, the adapter's connection is None (until the
\* next call on the adapter); and when it
\* returned, the schema maps each table get_tables returned to what
\* get_columns returned for it.
C23_ExtractDbSchemaIsScoped ==
    \A a \in Adapters :
        (last[a].op = "extract_db_schema" /\ Idle(a)) =>
            LET calls == last[a].calls
                listed == calls[2].out.value
            IN  /\ connection[a] = None
                /\ calls[1].op = "connect"
                /\ Len(calls) > 1 =>
                       calls[1].out.status = "ok" /\ calls[2].op = "get_tables"
                /\ \A i \in DOMAIN calls :
                       i > 2 => /\ calls[i].op = "get_columns"
                                /\ calls[i].arg = listed[i - 2]
                /\ \A i \in DOMAIN calls :
                       i < Len(calls) => calls[i].out.status = "ok"
                /\ last[a].status = calls[Len(calls)].out.status
                /\ last[a].status = "raised" =>
                       last[a].err = calls[Len(calls)].out.err
                /\ last[a].status = "ok" =>
                       /\ Len(calls) = 2 + Len(listed)
                       /\ DictKeys(last[a].value) =
                              {listed[i] : i \in DOMAIN listed}
                       /\ Len(last[a].value) = Len(listed)
                       /\ \A i \in DOMAIN listed :
                              DictGet(last[a].value, listed[i]) =
                                  calls[2 + i].out.value

\* extract_db_schema connected, found two tables, described both, returned
\* the schema of the two and left the adapter without a handle
C23_Witness ==
    \E a \in Adapters :
        /\ last[a].op = "extract_db_schema"
        /\ Idle(a)
        /\ last[a].status = "ok"
        /\ last[a].preConn = None
        /\ Len(last[a].calls) = 4
        /\ Len(last[a].value) = 2
        /\ connection[a] = None

-----------------------------------------------------------------------------
(* Catalog calls and the catalog *)

\* C24: get_tables() and get_columns(t) keep no result between calls: what
\* a call returns is read from the catalog as it is at the time of the
\* call (the tables the engine's query lists; the column rows of t), also
\* when it follows a call that returned and the catalog has changed
\* between the two, and every call that returns has queried the catalog.
C24_EveryCallReadsTheCatalog ==
    \A a \in Adapters :
        /\ (last[a].op = "get_tables" /\ last[a].status = "ok") =>
               /\ last[a].queried
               /\ last[a].value = IF db_type[a] = "MYSQL"
                                  THEN last[a].objects
                                  ELSE last[a].baseTables
        /\ (last[a].op = "get_columns" /\ last[a].status = "ok") =>
               LET cols == Columns(last[a].layout)
               IN  /\ last[a].queried
                   /\ Len(last[a].value) = Len(cols)
                   /\ \A i \in DOMAIN cols :
                          last[a].value[i].name = cols[i].name

\* a get_tables() returned both tables right after a get_tables() that had
\* returned over a different catalog
C24_Witness ==
    \E a \in Adapters :
        /\ last[a].op = "get_tables"
        /\ last[a].status = "ok"
        /\ last[a].again = "changed"
        /\ last[a].value = <<"test_table", "test_table_2">>

-----------------------------------------------------------------------------
(* Two instances *)

\* C25: two adapter instances are independent under any interleaving of
\* their operations: a step that is a call on one instance (close() and
\* scoped exit included) or a change of its handle (a transport drop
\* included) leaves the other instance's handle, the native connection
\* behind it and its status as they were; and no step modifies the
\* class-level lookup from native spelling to type that all share.
C25_InstancesAreIndependent ==
    [][ /\ lookup' = lookup
        /\ \A a \in Adapters : \A b \in Adapters \ {a} :
               LET Touched ==
                       \/ last'[b] # last[b]
                       \/ connection'[b] # connection[b]
                       \/ life'[b] # life[b]
                       \/ \E h \in Handles :
                              /\ native[h].owner = b \/ native'[h].owner = b
                              /\ native'[h] # native[h]
                   StatusOf == IF db_type[a] \in DatabaseType
                               THEN get_connection_status(a)
                               ELSE "none"
               IN  Touched =>
                       /\ connection'[a] = connection[a]
                       /\ StatusOf' = StatusOf
                       /\ life'[a] = life[a]
                       /\ \A h \in Opened(a) : native'[h] = native[h] ]_vars

\* one instance has been closed after use and the other, constructed
\* before that, is still connected and has described a table since
C25_Witness ==
    \E a \in Adapters : \E b \in Adapters \ {a} :
        /\ last[a].op \in {"close", "__exit__"}
        /\ last[a].preConn # None
        /\ connection[a] = None
        /\ connection[b] # None
        /\ get_connection_status(b) = "CONNECTED"
        /\ last[b].op = "get_columns"
        /\ last[b].status = "ok"
        /\ lookup = DbBase_db_type_to_python_type

\* C26: on a connected adapter whose driver answers, over the catalog as
\* it stands, get_columns(t) returns for every name t that get_tables()
\* returns and raises DatabaseTableNotFoundError for every other name; and
\* an extract_schema() whose driver answered raises
\* DatabaseTableNotFoundError only for a table that was dropped after it
\* was listed, whatever the current schema of the session.
C26_ListedTablesCanBeDescribed ==
    \A a \in Adapters :
        /\ ( /\ life[a] \in Alive
             /\ db_type[a] \in DatabaseType
             /\ Idle(a)
             /\ get_connection_status(a) = "CONNECTED" ) =>
               LET listed == get_tables(a, "none").value
               IN  \A t \in Names :
                       LET described == get_columns(a, t, "none")
                       IN  IF \E i \in DOMAIN listed : listed[i] = t
                           THEN described.status = "ok"
                           ELSE /\ described.status = "raised"
                                /\ described.err.kind =
                                       "DatabaseTableNotFoundError"
        /\ ( /\ last[a].op = "extract_schema"
             /\ last[a].fault = "none"
             /\ last[a].err.kind = "DatabaseTableNotFoundError" ) =>
               Origin(last[a]).existed = "absent"

\* C27: an extract_schema() that listed a table and came to describe it
\* after another session had dropped it raises DatabaseTableNotFoundError
\* for that table, on every engine, when the connection is open and the
\* driver answers: it does not
\* return a schema, and no get_columns of its run returned a column list
\* for a table that was gone.
C27_DroppedTableIsReportedMissing ==
    \A a \in Adapters :
        last[a].op = "extract_schema" =>
            /\ \A i \in DOMAIN last[a].calls :
                   ( /\ last[a].calls[i].op = "get_columns"
                     /\ last[a].calls[i].existed = "absent" ) =>
                       last[a].calls[i].out.status = "raised"
            /\ ( /\ last[a].fault = "none"
                 /\ Len(last[a].calls) > 1
                 /\ last[a].calls[Len(last[a].calls)].out.queried
                 /\ Origin(last[a]).existed = "absent" ) =>
                   /\ last[a].status = "raised"
                   /\ last[a].err.kind = "DatabaseTableNotFoundError"

\* C28: get_columns(t) on an adapter whose status is DISCONNECTED raises
\* the connection error, DatabaseConnectionError, whether t is a table, a
\* view or absent, and before any existence query is issued: it never
\* raises DatabaseTableNotFoundError.
C28_ConnectionCheckComesFirst ==
    \A a \in Adapters :
        ( /\ db_type[a] \in DatabaseType
          /\ last[a].op = "get_columns"
          /\ last[a].pre = "DISCONNECTED" ) =>
            /\ last[a].status = "raised"
            /\ last[a].err.kind = "DatabaseConnectionError"
            /\ ~last[a].queried

\* C29: a get_tables() of a SQLite adapter of either package that returns
\* lists every catalog entry of type 'table' whose name does not start
\* with the literal seven characters `sqlite_`, a name that starts with
\* `sqlite` and another character included.
C29_OnlyTheLiteralPrefixIsLeftOut ==
    \A a \in Adapters :
        ( /\ db_type[a] \in {"SQLITE", "database.SqliteDbConnection"}
          /\ last[a].op = "get_tables"
          /\ last[a].status = "ok" ) =>
            \A i \in DOMAIN last[a].baseTables :
                LET n == last[a].baseTables[i]
                    literal == <<"s", "q", "l", "i", "t", "e", "_">>
                IN  \/ /\ Len(NameChars(n)) >= 7
                       /\ SubSeq(NameChars(n), 1, 7) = literal
                    \/ \E k \in DOMAIN last[a].value : last[a].value[k] = n

\* C30: the spelling sets python_type_map registers under different types
\* are pairwise disjoint, in database_inspector and in src/database, so
\* the reverse lookup gives a registered spelling the type of every map
\* entry that lists it, whatever the order the map is walked in, and
\* _get_python_type returns that type.
C30_SpellingSetsAreDisjoint ==
    /\ \A i, j \in DOMAIN python_type_map :
           i # j => python_type_map[i][2] \cap python_type_map[j][2] = {}
    /\ \A i, j \in DOMAIN database_python_type_map :
           i # j => database_python_type_map[i][2]
                        \cap database_python_type_map[j][2] = {}
    /\ DOMAIN lookup =
           UNION {python_type_map[i][2] : i \in DOMAIN python_type_map}
    /\ \A i \in DOMAIN python_type_map :
           \A key \in python_type_map[i][2] :
               lookup[key] = python_type_map[i][1]
    /\ \A i \in DOMAIN database_python_type_map :
           \A key \in database_python_type_map[i][2] :
               database_db_type_to_python_type_get(key)
                   = database_python_type_map[i][1]
    /\ (type_arg.kind = "registered" /\ type_result # "unset") =>
           \A i \in DOMAIN python_type_map :
               type_arg.base \in python_type_map[i][2] =>
                   type_result = python_type_map[i][1]

\* DATE, a prefix of DATETIME, was looked up and gave date
C30_Witness ==
    /\ type_arg.kind = "registered"
    /\ type_arg.base = <<"D", "A", "T", "E">>
    /\ type_result = "date"

====
